---- MODULE Spec2Model ----
(***************************************************************************)
(* Batch conversion orchestrator of the DeepWiki-to-Markdown extension     *)
(* (background service worker): the per-tab delivery queue, navigation,     *)
(* the page processor, the run loop and their event handlers.              *)
(*                                                                         *)
(* Time is abstract: a timer that is armed may fire at any later step.     *)
(* Every await of the source is a suspension point; the code between two   *)
(* awaits is one atomic step (single-threaded event loop).                 *)
(***************************************************************************)
EXTENDS Naturals, Integers, Sequences, FiniteSets, TLC

----------------------------------------------------------------------------
(* Bounds of the model.  MaxPages bounds the pages the discovery collaborator *)
(* hands out over all starts.                                               *)

MaxPages == 2
MaxStarts == 2
MaxSends == 3
MaxReloads == 1

(* Program constants *)

CONTENT_READY_MIN_TEXT == 160
MinMeaningfulCount == 6
EmptyThreshold == 80
EmptyFloor == 20

----------------------------------------------------------------------------
(* Values *)

\* The tab ids of the browser, and the tab over which the popup is opened
Tabs == {1, 2}
UserTabs == {1}
NoTab == 0
Nobody == <<"nobody", 0>>

\* Addresses: origin, path (a string, as a sequence of characters, without the
\* leading slash) and hash ("" when absent).  NoUrl stands for undefined.
MkUrl(o, p, h) == [origin |-> o, path |-> p, hash |-> h]
NoUrl == MkUrl("", <<>>, "")
UrlA == MkUrl("o", <<"a">>, "")
UrlAh == MkUrl("o", <<"a">>, "#2")
UrlC == MkUrl("o", <<"c">>, "")
\* The overview address of the project: its path is a prefix of every page's
UrlR == MkUrl("o", <<>>, "")
\* An address of another site
UrlX == MkUrl("x", <<"a">>, "")

\* isValidUrl(url): the address contains 'deepwiki.com' or 'devin.ai'; "o" is
\* the one origin of the model that does.
isValidUrl(url) == url # NoUrl /\ url.origin = "o"

\* s.replace(/\/$/, '')
StripSlash(p) == IF Len(p) > 0 /\ p[Len(p)] = "/" THEN SubSeq(p, 1, Len(p) - 1) ELSE p

\* String.prototype.startsWith
StartsWith(s, pre) == Len(pre) <= Len(s) /\ SubSeq(s, 1, Len(pre)) = pre

isHashChange(currentUrl, targetUrl) ==
    /\ currentUrl # NoUrl /\ targetUrl # NoUrl
    /\ currentUrl.origin = targetUrl.origin
    /\ StripSlash(currentUrl.path) = StripSlash(targetUrl.path)
    /\ currentUrl.hash # targetUrl.hash

\* samePage as equality of the whole addresses
samePage_ExactAddress(currentUrl, targetUrl) == currentUrl = targetUrl

\* samePage that compares the origins only
samePage_SameOrigin(currentUrl, targetUrl) == currentUrl.origin = targetUrl.origin

\* samePage of processSinglePage
samePage(currentUrl, targetUrl) ==
    /\ currentUrl.origin = targetUrl.origin
    /\ StripSlash(currentUrl.path) = StripSlash(targetUrl.path)

\* sameBase of the tab-update listener (no trailing-slash normalisation)
sameBase(oldUrl, newUrl) ==
    /\ oldUrl.origin = newUrl.origin
    /\ oldUrl.path = newUrl.path

urlsRoughlyMatch(expectedUrl, actualUrl) ==
    IF expectedUrl = NoUrl \/ actualUrl = NoUrl THEN TRUE
    ELSE IF expectedUrl.origin # actualUrl.origin THEN FALSE
    ELSE IF expectedUrl.hash # "" /\ expectedUrl.hash # actualUrl.hash THEN FALSE
    ELSE StartsWith(actualUrl.path, expectedUrl.path) \/ StartsWith(expectedUrl.path, actualUrl.path)

\* Readiness answers: null, an answer without metrics (an error answer), or an
\* answer with metrics.
MkReadiness(k, t, m, d, to) ==
    [kind |-> k, textLength |-> t, meaningfulCount |-> m, hasMermaid |-> d, timedOut |-> to]
NullReadiness == MkReadiness("null", 0, 0, FALSE, FALSE)
NoMetrics == MkReadiness("nometrics", 0, 0, FALSE, FALSE)
ReadinessLow == MkReadiness("metrics", 0, 0, FALSE, TRUE)
ReadinessHigh == MkReadiness("metrics", 500, 0, FALSE, FALSE)

\* x || y on readiness answers
OrElse(x, y) == IF x = NullReadiness THEN y ELSE x

\* Markdown text, as far as its length goes: lead and trail are the numbers of
\* white-space characters before the first and after the last other character,
\* core is the length of what lies between them (0 for text that is all white
\* space, and then trail is 0).  absent: the response carries no markdown.
MkMarkdown(lead, core, trail) == [absent |-> FALSE, lead |-> lead, core |-> core, trail |-> trail]
NoMarkdown == [absent |-> TRUE, lead |-> 0, core |-> 0, trail |-> 0]

\* The length of the text as it is, white space included
TrimmedLength_Untrimmed(markdown) == markdown.lead + markdown.core + markdown.trail

\* (markdown || '').trim().length
TrimmedLength(markdown) == IF markdown.absent THEN 0 ELSE markdown.core

NoVerdict == [markdown |-> NoMarkdown, readiness |-> MkReadiness("null", 0, 0, FALSE, FALSE),
              judged |-> FALSE, result |-> FALSE]

\* A test that never finds the markdown empty
isMarkdownSuspiciouslyEmpty_Never(length, readiness) == FALSE

isMarkdownSuspiciouslyEmpty(length, readiness) ==
    IF length >= EmptyThreshold THEN FALSE
    ELSE IF readiness.kind # "metrics" THEN length < EmptyFloor
    ELSE /\ \/ readiness.textLength >= CONTENT_READY_MIN_TEXT
            \/ readiness.meaningfulCount >= MinMeaningfulCount
            \/ readiness.hasMermaid
         /\ length < EmptyThreshold

----------------------------------------------------------------------------
(* Page descriptors and what the agent answers *)

MkPage(u, i) == [url |-> u, devinIndex |-> i]
NoIndex == 0 - 1
WikiPages == {MkPage(UrlA, NoIndex), MkPage(UrlAh, NoIndex), MkPage(UrlC, NoIndex)}

RECURSIVE DistinctSeqs(_, _)
DistinctSeqs(S, n) ==
    IF n = 0 THEN {<<>>}
    ELSE LET shorter == DistinctSeqs(S, n - 1)
         IN shorter \cup {Append(q, x) : q \in {r \in shorter : Len(r) = n - 1}, x \in S}

\* Lists the discovery collaborator can return: sidebar links (unique
\* addresses), or the topics of one Devin page in index order.
PageLists ==
    {q \in DistinctSeqs(WikiPages, MaxPages) :
        /\ Len(q) > 0
        /\ \A i, j \in 1..Len(q) : i # j => q[i] # q[j]}
    \cup {[i \in 1..n |-> MkPage(UrlA, i - 1)] : n \in 1..MaxPages}

MarkdownLengths == {0, 50, 100}

Actions == {"extractAllPages", "convertToMarkdown", "waitForContentReady",
            "getContentSignature", "selectDevinTopic", "waitForTopicReady"}

\* Handlers of the agent that answer inside the listener call; the others answer
\* from a promise or an async function.
SyncActions == {"convertToMarkdown", "getContentSignature"}

MkResp(k, ok, n, r, pg, e) ==
    [kind |-> k, success |-> ok, len |-> n, readiness |-> r, pages |-> pg, err |-> e]
NoResp == MkResp("none", FALSE, 0, NullReadiness, <<>>, "")
ErrResp(e) == MkResp("error", FALSE, 0, NullReadiness, <<>>, e)
OkResp == MkResp("response", TRUE, 0, NullReadiness, <<>>, "")
FailResp == MkResp("response", FALSE, 0, NullReadiness, <<>>, "")

AgentResponses(action) ==
    CASE action = "extractAllPages" ->
            {MkResp("response", TRUE, 0, NullReadiness, pg, "") : pg \in PageLists \cup {<<>>}}
            \cup {FailResp}
      [] action = "convertToMarkdown" ->
            {MkResp("response", TRUE, n, NullReadiness, <<>>, "") : n \in MarkdownLengths}
            \cup {FailResp}
      [] action \in {"waitForContentReady", "waitForTopicReady"} ->
            {MkResp("response", TRUE, 0, r, <<>>, "") : r \in {ReadinessLow, ReadinessHigh, NoMetrics}}
      [] action = "selectDevinTopic" -> {OkResp, FailResp}
      [] OTHER -> {OkResp}

----------------------------------------------------------------------------
(* The agent's readiness metrics (content.js) *)

MaxRegions == 2
MaxText == 1

\* Text: a sequence of characters, " " for white space and "x" for any other
RECURSIVE Strings(_)
Strings(n) ==
    IF n = 0 THEN {<<>>}
    ELSE Strings(n - 1) \cup {Append(s, c) : s \in {q \in Strings(n - 1) : Len(q) = n - 1},
                                             c \in {" ", "x"}}

\* String.prototype.trim
RECURSIVE TrimStart(_)
TrimStart(s) == IF s # <<>> /\ Head(s) = " " THEN TrimStart(Tail(s)) ELSE s
RECURSIVE TrimEnd(_)
TrimEnd(s) ==
    IF s # <<>> /\ s[Len(s)] = " " THEN TrimEnd(SubSeq(s, 1, Len(s) - 1)) ELSE s
Trim(s) == TrimEnd(TrimStart(s))

\* An element: its tag and its class attribute, the latter as the sequence of
\* the words that its hyphens separate.
MkElement(tag, class) == [tag |-> tag, class |-> class]
Article == MkElement("article", <<>>)
Wrappers ==
    {Article, MkElement("nav", <<>>), MkElement("aside", <<>>), MkElement("header", <<>>),
     MkElement("footer", <<>>), MkElement("div", <<"sidebar">>), MkElement("div", <<"menu">>),
     MkElement("div", <<"sidebar", "container">>), MkElement("div", <<"nav", "links">>)}

\* A region of the container: a wrapper element that holds one text node,
\* inside a <p> when para.  A document: what selectContentContainer() finds
\* ("none", "body" when the body itself matches .prose, "specific" otherwise) and
\* the regions of that container, or of the body when there is none.  No
\* region is a script or style element.
Regions == [wrapper : Wrappers, para : BOOLEAN, text : Strings(MaxText)]
RECURSIVE RegionLists(_)
RegionLists(n) ==
    IF n = 0 THEN {<<>>}
    ELSE RegionLists(n - 1) \cup
         {Append(q, g) : q \in {l \in RegionLists(n - 1) : Len(l) = n - 1}, g \in Regions}
Documents == [container : {"none", "body", "specific"}, regions : RegionLists(MaxRegions)]
NoDocument == [container |-> "none", regions |-> <<>>]
NotMeasured == [hasContainer |-> FALSE, textLength |-> 0 - 1, meaningfulCount |-> 0 - 1,
                hasMermaid |-> FALSE]

\* el.matches('nav, aside, header, footer, .sidebar, .menu, [class*="sidebar"], [class*="nav-"]')
MatchesNavigational(el) ==
    \/ el.tag \in {"nav", "aside", "header", "footer"}
    \/ el.class = <<"sidebar">>
    \/ el.class = <<"menu">>
    \/ \E i \in 1..Len(el.class) : el.class[i] = "sidebar"
    \/ \E i \in 1..(Len(el.class) - 1) : el.class[i] = "nav"

\* el.matches('nav, aside, .sidebar')
MatchesSidebar(el) == el.tag \in {"nav", "aside"} \/ el.class = <<"sidebar">>

\* isNavigational(node) for the nodes of a region: node.closest(...) finds the
\* wrapper or nothing (the container and its ancestors are not navigation-like).
isNavigational(region) == MatchesNavigational(region.wrapper)

\* container.textContent
RECURSIVE TextContent(_)
TextContent(regions) ==
    IF regions = <<>> THEN <<>> ELSE Head(regions).text \o TextContent(Tail(regions))

\* The tree walker over the text nodes: the sum of the trimmed lengths of the
\* text nodes that acceptNode accepts.
RECURSIVE WalkText(_)
WalkText(regions) ==
    IF regions = <<>> THEN 0
    ELSE (IF isNavigational(Head(regions))
             \/ Head(regions).wrapper.tag \in {"script", "style", "noscript"}
          THEN 0 ELSE Len(Trim(Head(regions).text)))
         + WalkText(Tail(regions))

\* The elements of querySelectorAll("p, pre, code, ...") that are not navigational
RECURSIVE CountMeaningful(_)
CountMeaningful(regions) ==
    IF regions = <<>> THEN 0
    ELSE (IF Head(regions).para /\ ~isNavigational(Head(regions)) THEN 1 ELSE 0)
         + CountMeaningful(Tail(regions))

\* getContentReadinessMetrics(); the documents have no mermaid diagram
getContentReadinessMetrics(doc) ==
    IF doc.container = "none"
    THEN [hasContainer |-> FALSE, textLength |-> 0, meaningfulCount |-> 0, hasMermaid |-> FALSE]
    ELSE [hasContainer |-> TRUE,
          textLength |->
              IF doc.container = "body" THEN WalkText(doc.regions)
              ELSE IF \E i \in 1..Len(doc.regions) : MatchesSidebar(doc.regions[i].wrapper)
              THEN WalkText(doc.regions)
              ELSE Len(Trim(TextContent(doc.regions))),
          meaningfulCount |-> CountMeaningful(doc.regions),
          hasMermaid |-> FALSE]

----------------------------------------------------------------------------
(* The agent's readiness probe (content.js) *)

\* The deadline of a probe, in polling intervals
MaxTicks == 2

\* urlsRoughlyMatch(expectedUrl) of the agent: window.location.href against the
\* expected address, search and fragment ignored, sub-paths allowed.
urlsRoughlyMatchAgent(expectedUrl, location) ==
    IF expectedUrl = NoUrl THEN TRUE
    ELSE IF expectedUrl.origin # location.origin THEN FALSE
    ELSE StartsWith(location.path, expectedUrl.path)

\* A readiness test that does not look at the address
ContentReady_IgnoresAddress(urlOk, m, minTextLength) ==
    /\ m.hasContainer
    /\ \/ m.textLength >= minTextLength
       \/ m.meaningfulCount >= MinMeaningfulCount
       \/ m.hasMermaid

\* const ready = urlOk && metrics.hasContainer && (...) of waitForContentReady
ContentReady(urlOk, m, minTextLength) ==
    /\ urlOk
    /\ m.hasContainer
    /\ \/ m.textLength >= minTextLength
       \/ m.meaningfulCount >= MinMeaningfulCount
       \/ m.hasMermaid

\* What getContentReadinessMetrics() can return to a poll
ObservedMetrics ==
    {[hasContainer |-> FALSE, textLength |-> 0, meaningfulCount |-> 0, hasMermaid |-> FALSE]}
    \cup [hasContainer : {TRUE},
          textLength : {0, CONTENT_READY_MIN_TEXT - 1, CONTENT_READY_MIN_TEXT},
          meaningfulCount : {0, MinMeaningfulCount - 1, MinMeaningfulCount},
          hasMermaid : BOOLEAN]

NoResult == [ready |-> FALSE, timedOut |-> FALSE, urlOk |-> FALSE, metrics |-> NotMeasured]
NoProbe ==
    [pc |-> "idle", expectedUrl |-> NoUrl, minTextLength |-> 0, deadline |-> 0, elapsed |-> 0,
     result |-> NoResult]

----------------------------------------------------------------------------
(* State *)

VARIABLES
    batchState,       \* the singleton BatchRun (run: which start created the object)
    lastBatchReport,  \* the last broadcast status record
    messageQueue,     \* tab -> delivery queue entry
    tabs,             \* tab -> the browser's view of the tab and its agent
    sends,            \* id -> a sendMessageToTab call that is not yet garbage
    inflight,         \* tab -> ids handed to chrome.tabs.sendMessage, oldest first
    loops,            \* run -> the runBatchProcessing call of that run
    starts,           \* the startBatchProcessing calls, in arrival order
    hist,             \* history variables the claims are stated over
    document,         \* the document the agent of the tab looks at
    metrics,          \* what getContentReadinessMetrics() last returned for it
    probe,            \* the waitForContentReady call of the agent
    verdict           \* a call of isMarkdownSuspiciouslyEmpty: arguments and result

vars == <<batchState, lastBatchReport, messageQueue, tabs, sends, inflight, loops, starts, hist,
          document, metrics, probe, verdict>>

createInitialBatchState ==
    [isRunning |-> FALSE, tabId |-> NoTab, originalUrl |-> NoUrl, pages |-> <<>>,
     convertedPages |-> <<>>, processed |-> 0, failed |-> 0, cancelRequested |-> FALSE,
     total |-> 0, fileNames |-> {}, run |-> 0]

InitialReport ==
    [type |-> "idle", running |-> FALSE, processed |-> 0, failed |-> 0, total |-> 0,
     cancelRequested |-> FALSE, level |-> "info"]

NoEntry == [exists |-> FALSE, isReady |-> FALSE, queue |-> <<>>, lastUrl |-> NoUrl]
MkEntry(r, q, u) == [exists |-> TRUE, isReady |-> r, queue |-> q, lastUrl |-> u]

\* The queue world the delivery functions work on.
World(mq, sd, fl) == [mq |-> mq, sends |-> sd, inflight |-> fl]

----------------------------------------------------------------------------
(* Delivery queue *)

\* Evaluates e once and gives it to Body.
With(e, Body(_)) == CHOOSE y \in {Body(v) : v \in {e}} : TRUE

markTabPending(mq, tabId) ==
    With(mq, LAMBDA q :
        IF ~q[tabId].exists
        THEN [q EXCEPT ![tabId] = MkEntry(FALSE, <<>>, NoUrl)]
        ELSE [q EXCEPT ![tabId].isReady = FALSE])

\* chrome.tabs.sendMessage(tabId, message, callback): the message reaches the agent
\* listening in the tab now, if there is one; the callback runs later.
TabsSendMessage(w, tb, id, how) ==
    With(w, LAMBDA v :
        LET t == v.sends[id].tab
            heard == t \in Tabs /\ tb[t].open /\ tb[t].agent
        IN [v EXCEPT !.sends[id].where = how,
                     !.sends[id].port = IF heard THEN "open" ELSE "none",
                     !.inflight[t] = Append(@, id)])

dispatchMessageToTab(w, tb, id) == TabsSendMessage(w, tb, id, "dispatched")

RECURSIVE DispatchAll(_, _, _)
DispatchAll(w, tb, q) ==
    IF q = <<>> THEN w
    ELSE With(dispatchMessageToTab(w, tb, Head(q)), LAMBDA v : DispatchAll(v, tb, Tail(q)))

\* flushMessageQueue that dispatches the items and leaves them in the queue
flushMessageQueue_KeepsItems(w, tb, tabId) ==
    With(w, LAMBDA v :
        IF ~v.mq[tabId].exists THEN v
        ELSE With([v EXCEPT !.mq[tabId].isReady = TRUE],
                  LAMBDA w1 : DispatchAll(w1, tb, v.mq[tabId].queue)))

flushMessageQueue(w, tb, tabId) ==
    With(w, LAMBDA v :
        IF ~v.mq[tabId].exists THEN v
        ELSE With([v EXCEPT !.mq[tabId].isReady = TRUE, !.mq[tabId].queue = <<>>],
                  LAMBDA w1 : DispatchAll(w1, tb, v.mq[tabId].queue)))

\* queueMessageForTab that puts the item at the head of the queue
queueMessageForTab_Unshift(w, tabId, id) ==
    With(w, LAMBDA v :
        With(IF ~v.mq[tabId].exists
             THEN [v.mq EXCEPT ![tabId] = MkEntry(FALSE, <<>>, NoUrl)]
             ELSE v.mq,
             LAMBDA mq1 :
                [v EXCEPT !.mq = [mq1 EXCEPT ![tabId].queue = <<id>> \o @],
                          !.sends[id].where = "queued",
                          !.sends[id].timer = "armed"]))

\* queueMessageForTab without the setTimeout call
queueMessageForTab_NoTimer(w, tabId, id) ==
    With(w, LAMBDA v :
        With(IF ~v.mq[tabId].exists
             THEN [v.mq EXCEPT ![tabId] = MkEntry(FALSE, <<>>, NoUrl)]
             ELSE v.mq,
             LAMBDA mq1 :
                [v EXCEPT !.mq = [mq1 EXCEPT ![tabId].queue = Append(@, id)],
                          !.sends[id].where = "queued"]))

queueMessageForTab(w, tabId, id) ==
    With(w, LAMBDA v :
        With(IF ~v.mq[tabId].exists
             THEN [v.mq EXCEPT ![tabId] = MkEntry(FALSE, <<>>, NoUrl)]
             ELSE v.mq,
             LAMBDA mq1 :
                [v EXCEPT !.mq = [mq1 EXCEPT ![tabId].queue = Append(@, id)],
                          !.sends[id].where = "queued",
                          !.sends[id].timer = "armed"]))

attemptDirectMessage(w, tb, id) == TabsSendMessage(w, tb, id, "direct")

shouldQueueForError(err) == err = "noReceiver"

\* The wrapped resolve/reject of a queue item and the resolve/reject of a direct
\* attempt: settling clears the item's timer; a settled promise stays as it is.
Settle(sd, id, how, resp) ==
    With(sd, LAMBDA d :
        [d EXCEPT ![id].timer = IF @ = "armed" THEN "cleared" ELSE @,
                  ![id].promise = IF @ = "pending" THEN how ELSE @,
                  ![id].resp = IF d[id].promise = "pending" THEN resp ELSE @])

NewId(sd) ==
    With(DOMAIN sd, LAMBDA used : CHOOSE i \in 1..(Cardinality(used) + 1) : i \notin used)

MkSend(t, a, o, vp) ==
    [tab |-> t, action |-> a, owner |-> o, promise |-> "pending", where |-> "done",
     port |-> "none", timer |-> "none", resp |-> NoResp, fallback |-> FALSE,
     viaPending |-> vp]

\* A sendMessageToTab that attempts the delivery at once whatever the tab's mark
sendMessageToTab_IgnoresPending(w, tb, tabId, action, owner) ==
    With(w, LAMBDA v :
        With(NewId(v.sends), LAMBDA id :
            LET known == tabId \in Tabs /\ v.mq[tabId].exists
                pending == known /\ ~v.mq[tabId].isReady
            IN With([v EXCEPT !.sends = (id :> MkSend(tabId, action, owner, pending)) @@ @],
                    LAMBDA w1 :
                       IF tabId \notin Tabs
                       THEN [w1 EXCEPT !.sends = Settle(@, id, "rejected", ErrResp("other"))]
                       ELSE IF known THEN attemptDirectMessage(w1, tb, id)
                       ELSE attemptDirectMessage([w1 EXCEPT !.sends[id].fallback = TRUE],
                                                 tb, id))))

\* sendMessageToTab(tabId, message) called by owner; the new call's id is NewId(w.sends).
sendMessageToTab(w, tb, tabId, action, owner) ==
    With(w, LAMBDA v :
        With(NewId(v.sends), LAMBDA id :
            LET known == tabId \in Tabs /\ v.mq[tabId].exists
                pending == known /\ ~v.mq[tabId].isReady
            IN With([v EXCEPT !.sends = (id :> MkSend(tabId, action, owner, pending)) @@ @],
                    LAMBDA w1 :
                       IF tabId \notin Tabs
                       THEN \* chrome.tabs.sendMessage throws on a tab id that is no integer
                            [w1 EXCEPT !.sends = Settle(@, id, "rejected", ErrResp("other"))]
                       ELSE IF pending THEN queueMessageForTab(w1, tabId, id)
                       ELSE IF known THEN attemptDirectMessage(w1, tb, id)
                       ELSE attemptDirectMessage([w1 EXCEPT !.sends[id].fallback = TRUE],
                                                 tb, id))))

\* Records nobody can reach any more: settled, read by the awaiting caller, in no
\* queue and with no callback outstanding.
Collect(w) ==
    With(w, LAMBDA v :
        LET live == {i \in DOMAIN v.sends :
                        ~(/\ v.sends[i].owner = Nobody
                          /\ v.sends[i].promise # "pending"
                          /\ v.sends[i].where = "done")}
        IN [v EXCEPT !.sends = [i \in live |-> v.sends[i]]])

----------------------------------------------------------------------------
(* Status broadcast *)

\* broadcastBatchUpdate(type, {message, level}, overrideRunning): callers never
\* pass counts, so they are read from batchState.  overrideRunning is "state"
\* when the argument is omitted.
broadcastBatchUpdate(bs, type, level, overrideRunning) ==
    [type |-> type,
     running |-> IF overrideRunning = "state" THEN bs.isRunning ELSE overrideRunning = "true",
     processed |-> bs.processed, failed |-> bs.failed, total |-> bs.total,
     cancelRequested |-> bs.cancelRequested, level |-> level]

resetBatchState == createInitialBatchState

\* getBatchStatusPayload that forgets the last report once no run is active
getBatchStatusPayload_ForgetsReport(bs, rep) ==
    IF bs.isRunning
    THEN [type |-> rep.type, running |-> TRUE, processed |-> bs.processed,
          failed |-> bs.failed, total |-> bs.total,
          cancelRequested |-> bs.cancelRequested, level |-> rep.level]
    ELSE InitialReport

\* getBatchStatusPayload(): the answer to 'getBatchStatus'.  In
\* {running: false, ...rest} the fields of rest, lastBatchReport without its
\* action, come last and win.
getBatchStatusPayload(bs, rep) ==
    IF bs.isRunning
    THEN [type |-> rep.type, running |-> TRUE, processed |-> bs.processed,
          failed |-> bs.failed, total |-> bs.total,
          cancelRequested |-> bs.cancelRequested, level |-> rep.level]
    ELSE [k \in {"running"} \cup DOMAIN rep |->
             IF k \in DOMAIN rep THEN rep[k] ELSE FALSE]

----------------------------------------------------------------------------
(* The browser: tabs, their agents and the callbacks of chrome.tabs.sendMessage *)

MkTab(o, u, a) ==
    [open |-> o, url |-> u, agent |-> a, nav |-> NoUrl, announce |-> FALSE]

\* The document of a tab goes away: its agent stops listening and the ports of
\* the messages it has not answered close.
ClosePorts(w, t) ==
    With(w, LAMBDA v :
        [v EXCEPT !.sends = [i \in DOMAIN @ |->
            IF @[i].tab = t /\ @[i].where \in {"direct", "dispatched"} /\ @[i].port = "open"
            THEN [@[i] EXCEPT !.port = "closed"] ELSE @[i]]])

Remove(q, x) == SelectSeq(q, LAMBDA y : y # x)

\* An answer may not overtake the answer of an earlier message that the same
\* agent handles synchronously.
MayAnswer(id) ==
    LET q == inflight[sends[id].tab]
        k == CHOOSE n \in 1..Len(q) : q[n] = id
    IN \A n \in 1..(k - 1) :
           ~(sends[q[n]].port = "open" /\ sends[q[n]].action \in SyncActions)

\* The callback chrome.tabs.sendMessage was given, with chrome.runtime.lastError
\* (err) or the agent's response.
SendCallbackResult(w, id, resp) ==
    With(w, LAMBDA v :
        LET sd == v.sends[id]
        IN With([v EXCEPT !.inflight[sd.tab] = Remove(@, id), !.sends[id].where = "done"],
                LAMBDA w1 :
                   IF resp.kind = "error"
                   THEN IF sd.where = "direct" /\ sd.fallback /\ shouldQueueForError(resp.err)
                        THEN queueMessageForTab(w1, sd.tab, id)
                        ELSE [w1 EXCEPT !.sends = Settle(@, id, "rejected", resp)]
                   ELSE [w1 EXCEPT !.sends = Settle(@, id, "resolved", resp)]))

CallbackOutcomes(sd, budget) ==
    CASE sd.port = "none" -> {ErrResp("noReceiver")}
      [] sd.port = "closed" -> {ErrResp("other")}
      [] OTHER -> {a \in AgentResponses(sd.action) : Len(a.pages) <= budget}

\* contentScriptReady handler of chrome.runtime.onMessage
contentScriptReadyHandler(w, tb, tabId) ==
    With(w, LAMBDA v :
        IF ~v.mq[tabId].exists
        THEN flushMessageQueue([v EXCEPT !.mq[tabId] = MkEntry(TRUE, <<>>, tb[tabId].url)],
                               tb, tabId)
        ELSE flushMessageQueue([v EXCEPT !.mq[tabId].isReady = TRUE,
                                         !.mq[tabId].lastUrl = tb[tabId].url], tb, tabId))

\* chrome.tabs.onUpdated listener; status is "loading" or "" and changeUrl is
\* changeInfo.url (NoUrl when absent).  The 'complete' branch only pings the
\* agent.
tabsOnUpdated(mq, tabId, status, changeUrl, tabUrl) ==
    With(mq, LAMBDA q :
        LET e == q[tabId]
            hasLast == e.exists /\ e.lastUrl # NoUrl
        IN IF ~isValidUrl(tabUrl) THEN q
           ELSE IF status = "loading"
           THEN IF hasLast /\ sameBase(e.lastUrl, tabUrl) THEN q ELSE markTabPending(q, tabId)
           ELSE IF changeUrl # NoUrl
           THEN With(IF hasLast /\ sameBase(e.lastUrl, changeUrl)
                     THEN q ELSE markTabPending(q, tabId),
                     LAMBDA mq1 :
                        [mq1 EXCEPT ![tabId] = IF ~@.exists THEN MkEntry(TRUE, <<>>, changeUrl)
                                               ELSE [@ EXCEPT !.lastUrl = changeUrl]])
           ELSE q)

RECURSIVE RejectAll(_, _, _)
RejectAll(sd, q, resp) ==
    IF q = <<>> THEN sd
    ELSE With(Settle([sd EXCEPT ![Head(q)].where = "done"], Head(q), "rejected", resp),
              LAMBDA d : RejectAll(d, Tail(q), resp))

\* chrome.tabs.onRemoved listener, queue part
tabsOnRemovedQueue(w, tabId) ==
    With(w, LAMBDA v :
        IF v.mq[tabId].exists
        THEN [v EXCEPT !.sends = RejectAll(@, v.mq[tabId].queue, ErrResp("tabClosed")),
                       !.mq[tabId] = NoEntry]
        ELSE v)

----------------------------------------------------------------------------
(* File names *)

Digits == <<"1", "2", "3", "4", "5", "6", "7", "8", "9">>
MarkdownTitle == <<"T">>

RECURSIVE NextFree(_, _, _)
NextFree(fileNames, base, counter) ==
    LET candidate == base \o <<"-", Digits[counter]>>
    IN IF candidate \in fileNames THEN NextFree(fileNames, base, counter + 1) ELSE candidate

\* Characters of a title: Forbidden is the class [\\/:*?"<>|], WhiteSpace is \s
Forbidden == {"\\", "/", ":", "*", "?", "\"", "<", ">", "|"}
WhiteSpace == {" ", "\t", "\n"}
Page == <<"p", "a", "g", "e">>
ReadMe == <<"R", "E", "A", "D", "M", "E">>
Md == <<".", "m", "d">>

\* s.replace(/[Class]/g, by)
ReplaceEach(s, Class, by) == [i \in 1..Len(s) |-> IF s[i] \in Class THEN by ELSE s[i]]

\* s.replace(/[Class]+/g, by)
RECURSIVE ReplaceRuns(_, _, _)
ReplaceRuns(s, Class, by) ==
    IF s = <<>> THEN <<>>
    ELSE IF s[1] \in Class
    THEN IF Len(s) > 1 /\ s[2] \in Class THEN ReplaceRuns(Tail(s), Class, by)
         ELSE <<by>> \o ReplaceRuns(Tail(s), Class, by)
    ELSE <<s[1]>> \o ReplaceRuns(Tail(s), Class, by)

\* s.replace(/^-|-$/g, '')
StripDashes(s) ==
    LET a == IF s # <<>> /\ s[1] = "-" THEN Tail(s) ELSE s
    IN IF a # <<>> /\ a[Len(a)] = "-" THEN SubSeq(a, 1, Len(a) - 1) ELSE a

\* sanitizeName(value, fallback); the empty title stands for every falsy value
sanitizeName(value, fallback) ==
    IF value = <<>> THEN fallback
    ELSE LET replaced == ReplaceEach(value, Forbidden, "-")
             spaced == ReplaceRuns(replaced, WhiteSpace, "-")
             collapsed == ReplaceRuns(spaced, {"-"}, "-")
             stripped == StripDashes(collapsed)
         IN IF stripped = <<>> THEN fallback ELSE stripped

\* getUniqueFileName without the loop over the names in use
getUniqueFileName_NoSuffix(fileNames, desired) == sanitizeName(desired, Page)

\* getUniqueFileName(desired): the name it returns (it is also added to fileNames)
getUniqueFileName(fileNames, desired) ==
    LET base == sanitizeName(desired, Page)
    IN IF base \in fileNames THEN NextFree(fileNames, base, 1) ELSE base

----------------------------------------------------------------------------
(* Page processor and run loop.  The operators below map the whole program *)
(* state m to the state reached when the run loop of run r next suspends.  *)

Machine(bs, rep, w, tb, lps, sts, h) ==
    [bs |-> bs, rep |-> rep, w |-> w, tb |-> tb, loops |-> lps, starts |-> sts, hist |-> h]

\* No markdown
NoLen == 0 - 1

\* len1 is the length of the first convertResponse.markdown while the retry is
\* under way.  The history of the loop: got is the length of the markdown that
\* the step which led to this state received (NoLen in every other state).
MkLoop(pages) ==
    [pc |-> "top", i |-> 1, pages |-> pages, readiness |-> NullReadiness,
     retryReadiness |-> NullReadiness, sid |-> 0, tabArg |-> NoTab, cont |-> "",
     tried |-> FALSE, len1 |-> NoLen,
     \* history of this loop
     retried |-> FALSE, converts |-> 0, begun |-> 0, ok |-> 0, bad |-> 0,
     cancelled |-> FALSE, closed |-> FALSE, outcome |-> "none", zip |-> "none",
     got |-> NoLen]

Say(m, type, level, overrideRunning) ==
    With(m, LAMBDA v :
        [v EXCEPT !.rep = broadcastBatchUpdate(v.bs, type, level, overrideRunning),
                  !.hist.pageFailed = IF type = "pageFailed" THEN @ + 1 ELSE @])

\* Terminate without the resetBatchState() of the finally block
Terminate_NoReset(m, r, type, level) ==
    With(m, LAMBDA v :
        [Say([v EXCEPT !.bs.isRunning = FALSE], type, level, "false") EXCEPT
            !.loops[r].pc = "done", !.loops[r].outcome = type])

\* The end of runBatchProcessing with a terminal status: isRunning = false, the
\* broadcast, and resetBatchState() of the finally block.  Of a finished call
\* only its history is kept.
Terminate(m, r, type, level) ==
    With(m, LAMBDA v :
        LET lp == v.loops[r]
        IN [Say([v EXCEPT !.bs.isRunning = FALSE], type, level, "false") EXCEPT
               !.bs = resetBatchState,
               !.loops[r] = [MkLoop(<<>>) EXCEPT !.pc = "done", !.outcome = type,
                                                 !.begun = lp.begun, !.ok = lp.ok,
                                                 !.bad = lp.bad, !.zip = lp.zip,
                                                 !.got = lp.got]])

\* The end of the for loop without the test for an empty convertedPages
AfterLoop_NoEmptyTest(m, r) ==
    With(m, LAMBDA v :
        IF v.bs.cancelRequested THEN Terminate(v, r, "cancelled", "info")
        ELSE [Say(v, "zipping", "info", "state") EXCEPT !.loops[r].pc = "zip",
                                                         !.loops[r].zip = "started"])

\* After the for loop of runBatchProcessing, up to the await of createZipArchive.
AfterLoop(m, r) ==
    With(m, LAMBDA v :
        IF v.bs.cancelRequested THEN Terminate(v, r, "cancelled", "info")
        ELSE IF v.bs.convertedPages = <<>> THEN Terminate(v, r, "error", "error")
        ELSE [Say(v, "zipping", "info", "state") EXCEPT !.loops[r].pc = "zip",
                                                         !.loops[r].zip = "started"])

RECURSIVE BeginPage(_, _)
RECURSIVE PageThrows(_, _)
RECURSIVE Resume(_, _)

\* The head of the for loop with the page index already set, then
\* processSinglePage up to its first await (getTabById).
BeginPage(m, r) ==
    With(m, LAMBDA v :
        IF v.loops[r].i > Len(v.loops[r].pages) \/ v.bs.cancelRequested THEN AfterLoop(v, r)
        ELSE With([Say(v, "processing", "info", "state") EXCEPT
                      !.loops[r].begun = @ + 1,
                      !.loops[r].converts = 0,
                      !.loops[r].tried = FALSE,
                      !.loops[r].retried = FALSE,
                      !.loops[r].len1 = NoLen,
                      !.loops[r].readiness = NullReadiness,
                      !.loops[r].retryReadiness = NullReadiness],
                  LAMBDA m1 :
                     IF v.bs.tabId = NoTab
                     THEN PageThrows(m1, r)
                     ELSE [m1 EXCEPT !.loops[r].pc = "awaitTab",
                                     !.loops[r].tabArg = v.bs.tabId]))

\* A catch block that does not count the page as failed
PageThrows_NotCounted(m, r) == BeginPage([m EXCEPT !.loops[r].i = @ + 1], r)

\* A catch block that gives the run up
PageThrows_Aborts(m, r) ==
    Terminate(Say([m EXCEPT !.bs.failed = @ + 1, !.loops[r].bad = @ + 1],
                  "pageFailed", "error", "state"),
              r, "error", "error")

\* The catch block of the for loop, then the next iteration.
PageThrows(m, r) ==
    With(Say([m EXCEPT !.bs.failed = @ + 1], "pageFailed", "error", "state"), LAMBDA m2 :
        BeginPage([m2 EXCEPT !.loops[r].i = @ + 1, !.loops[r].bad = @ + 1], r))

\* processSinglePage returned; the next iteration.
PageReturns(m, r) == BeginPage([m EXCEPT !.loops[r].i = @ + 1], r)

\* await sendMessageToTab(batchState.tabId, {action}); a call that is rejected at
\* once resumes the loop in the same step.
LoopSend(m, r, action, pc) ==
    With(m, LAMBDA v :
        With(NewId(v.w.sends), LAMBDA id :
            With([v EXCEPT !.w = sendMessageToTab(v.w, v.tb, v.bs.tabId, action, <<"loop", r>>),
                           !.loops[r].sid = id,
                           !.loops[r].pc = pc,
                           !.loops[r].converts =
                               IF action = "convertToMarkdown" THEN @ + 1 ELSE @],
                 LAMBDA m1 :
                    IF m1.w.sends[id].promise # "pending" THEN Resume(m1, r) ELSE m1)))

\* A page processor for which a probe that did not find the page ready is a
\* failure of the page
CheckThenConvert_TimedOutFails(m, r) ==
    With(m, LAMBDA v :
        IF v.bs.cancelRequested THEN PageReturns(v, r)
        ELSE IF v.loops[r].readiness.timedOut THEN PageThrows(v, r)
        ELSE LoopSend(v, r, "convertToMarkdown", "convert1"))

\* if (batchState.cancelRequested) return;  then the first convertToMarkdown
CheckThenConvert(m, r) ==
    With(m, LAMBDA v :
        IF v.bs.cancelRequested THEN PageReturns(v, r)
        ELSE LoopSend(v, r, "convertToMarkdown", "convert1"))

\* A page branch that converts right after the navigation, without the probe
AfterNavigate_NoProbe(m, r) ==
    With(m, LAMBDA v :
        IF v.loops[r].cont = "topic" THEN LoopSend(v, r, "getContentSignature", "sig")
        ELSE CheckThenConvert(v, r))

\* After navigateToPage resolved: the topic branch goes on with the content
\* signature, the page branch with the cancel check and waitForPageContent.
AfterNavigate(m, r) ==
    With(m, LAMBDA v :
        IF v.loops[r].cont = "topic" THEN LoopSend(v, r, "getContentSignature", "sig")
        ELSE IF v.bs.cancelRequested THEN PageReturns(v, r)
        ELSE LoopSend(v, r, "waitForContentReady", "ready1"))

\* navigateToPage(batchState.tabId, page.url) up to its await of getTabById
Navigate(m, r, cont) ==
    With(m, LAMBDA v :
        IF v.bs.tabId = NoTab THEN PageThrows(v, r)
        ELSE [v EXCEPT !.loops[r].pc = "navGetTab", !.loops[r].tabArg = v.bs.tabId,
                       !.loops[r].cont = cont])

\* The page was converted: file name, outputs, processed, 'pageProcessed'.
Success(m, r) ==
    With(m, LAMBDA v :
        With(getUniqueFileName(v.bs.fileNames, MarkdownTitle), LAMBDA name :
            [Say([v EXCEPT !.bs.fileNames = @ \cup {name},
                           !.bs.convertedPages = Append(@, name),
                           !.bs.processed = @ + 1],
                 "pageProcessed", "info", "state") EXCEPT
                !.loops[r].pc = "sleep250",
                !.loops[r].ok = @ + 1,
                !.loops[r].retryReadiness = NullReadiness]))

\* processSinglePage after the awaited sendMessageToTab call settled
Resume(m, r) ==
    With(m, LAMBDA v :
        LET lp == v.loops[r]
            sd == v.w.sends[lp.sid]
            ok == sd.promise = "resolved"
            resp == sd.resp
            topic == lp.pages[lp.i].devinIndex # NoIndex
            converted == lp.pc \in {"convert1", "convert2"} /\ ok /\ resp.success
        IN With([v EXCEPT !.w = Collect([v.w EXCEPT !.sends[lp.sid].owner = Nobody]),
                          !.loops[r].sid = 0,
                          !.loops[r].got = IF converted THEN resp.len ELSE @],
                LAMBDA m0 :
           CASE lp.pc = "ready1" ->
                  CheckThenConvert([m0 EXCEPT !.loops[r].readiness =
                                       IF ok THEN resp.readiness ELSE NullReadiness], r)
             [] lp.pc = "sig" ->
                  IF ok THEN LoopSend(m0, r, "selectDevinTopic", "select")
                  ELSE PageThrows(m0, r)
             [] lp.pc = "select" ->
                  IF ok /\ resp.success THEN [m0 EXCEPT !.loops[r].pc = "sleep350"]
                  ELSE PageThrows(m0, r)
             [] lp.pc = "topicReady" ->
                  IF ok THEN CheckThenConvert([m0 EXCEPT !.loops[r].readiness = resp.readiness],
                                              r)
                  ELSE PageThrows(m0, r)
             [] lp.pc = "convert1" ->
                  IF ~ok \/ ~resp.success THEN PageThrows(m0, r)
                  ELSE IF isMarkdownSuspiciouslyEmpty(resp.len, lp.readiness)
                  THEN [m0 EXCEPT !.loops[r].pc = "sleep900", !.loops[r].retried = TRUE,
                                  !.loops[r].len1 = resp.len]
                  ELSE Success(m0, r)
             [] lp.pc = "ready2" ->
                  IF topic /\ ~ok THEN PageThrows(m0, r)
                  ELSE LoopSend([m0 EXCEPT !.loops[r].retryReadiness =
                                    IF ok THEN resp.readiness ELSE NullReadiness],
                                r, "convertToMarkdown", "convert2")
             [] OTHER -> \* convert2
                  IF /\ ok /\ resp.success
                     /\ ~isMarkdownSuspiciouslyEmpty(resp.len,
                                                     OrElse(lp.retryReadiness, lp.readiness))
                  THEN Success(m0, r)
                  ELSE PageThrows(m0, r)))

----------------------------------------------------------------------------
(* startBatchProcessing *)

\* filterPagesToProject(pages, currentUrl): same-origin pages under the project
\* prefix of the current address.  Every path of the model lies under the
\* project prefix, so the origin test is the one that can drop a page.
filterPagesToProject(pages, currentUrl) ==
    SelectSeq(pages, LAMBDA pg : pg.url.origin = currentUrl.origin)

MkStart(t) == [tab |-> t, pc |-> "getTab", sid |-> 0, tabUrl |-> NoUrl, result |-> ""]

Reject(m, k, why) == [m EXCEPT !.starts[k].pc = "done", !.starts[k].result = why]

\* A startBatchProcessing that replaces batchState before it looks at the pages
StartResume_AssignsFirst(m, k) ==
    With(m, LAMBDA v :
        LET st == v.starts[k]
            sd == v.w.sends[st.sid]
            pages == IF sd.promise = "rejected" THEN <<>>
                     ELSE filterPagesToProject(sd.resp.pages, st.tabUrl)
            bs1 == [isRunning |-> TRUE, tabId |-> st.tab, originalUrl |-> st.tabUrl,
                    pages |-> pages, convertedPages |-> <<>>, processed |-> 0,
                    failed |-> 0, cancelRequested |-> FALSE, total |-> Len(pages),
                    fileNames |-> {}, run |-> k]
        IN With([v EXCEPT !.w = Collect([v.w EXCEPT !.sends[st.sid].owner = Nobody]),
                          !.starts[k].sid = 0, !.bs = bs1],
                LAMBDA m0 :
                   IF sd.promise = "rejected" THEN Reject(m0, k, "sendFailed")
                   ELSE IF ~sd.resp.success THEN Reject(m0, k, "extractFailed")
                   ELSE IF pages = <<>> THEN Reject(m0, k, "noPages")
                   ELSE BeginPage([Say(m0, "started", "info", "state")
                                      EXCEPT !.starts[k].pc = "done",
                                             !.starts[k].result = "ok",
                                             !.loops = (k :> MkLoop(pages)) @@ @], k)))

\* startBatchProcessing after the extractAllPages call settled; an accepted start
\* replaces batchState, broadcasts 'started' and calls runBatchProcessing(),
\* which runs up to its first await.
StartResume(m, k) ==
    With(m, LAMBDA v :
        LET st == v.starts[k]
            sd == v.w.sends[st.sid]
            pages == filterPagesToProject(sd.resp.pages, st.tabUrl)
            bs1 == [isRunning |-> TRUE, tabId |-> st.tab, originalUrl |-> st.tabUrl,
                    pages |-> pages, convertedPages |-> <<>>, processed |-> 0,
                    failed |-> 0, cancelRequested |-> FALSE, total |-> Len(pages),
                    fileNames |-> {}, run |-> k]
        IN With([v EXCEPT !.w = Collect([v.w EXCEPT !.sends[st.sid].owner = Nobody]),
                          !.starts[k].sid = 0],
                LAMBDA m0 :
                   IF sd.promise = "rejected" THEN Reject(m0, k, "sendFailed")
                   ELSE IF ~sd.resp.success THEN Reject(m0, k, "extractFailed")
                   ELSE IF pages = <<>> THEN Reject(m0, k, "noPages")
                   ELSE BeginPage([Say([m0 EXCEPT !.bs = bs1], "started", "info", "state")
                                      EXCEPT !.starts[k].pc = "done",
                                             !.starts[k].result = "ok",
                                             !.loops = (k :> MkLoop(pages)) @@ @], k)))

\* Continuations of the promises that an event settled run before the next event.
Waiting(m) ==
    {i \in DOMAIN m.w.sends :
        m.w.sends[i].promise # "pending" /\ m.w.sends[i].owner[1] \in {"loop", "start"}}

RECURSIVE Drain(_)
Drain(m) ==
    With(m, LAMBDA v :
        With(Waiting(v), LAMBDA waiting :
            IF waiting = {} THEN [v EXCEPT !.w = Collect(@)]
            ELSE LET i == CHOOSE x \in waiting : \A y \in waiting : x <= y
                     o == v.w.sends[i].owner
                 IN Drain(IF o[1] = "loop" THEN Resume(v, o[2]) ELSE StartResume(v, o[2]))))

----------------------------------------------------------------------------
(* Actions *)

\* The state a step starts from.
Cur ==
    Machine(batchState, lastBatchReport, World(messageQueue, sends, inflight), tabs,
            [r \in DOMAIN loops |-> [loops[r] EXCEPT !.got = NoLen]], starts,
            [hist EXCEPT !.reply = ""])

Becomes(m) ==
    \E v \in {m} :
        /\ batchState' = v.bs
        /\ lastBatchReport' = v.rep
        /\ messageQueue' = v.w.mq
        /\ sends' = v.w.sends
        /\ inflight' = v.w.inflight
        /\ tabs' = v.tb
        /\ loops' = v.loops
        /\ starts' = v.starts
        /\ hist' = v.hist
        /\ UNCHANGED <<document, metrics, probe, verdict>>

Runs == DOMAIN loops

\* startBatchProcessing without its isRunning test
startBatchProcessing_NoRunningTest(t) ==
    /\ Len(starts) < MaxStarts
    /\ Becomes([Cur EXCEPT !.starts = Append(@, MkStart(t))])

\* 'startBatch' message: startBatchProcessing(tabId) up to its first await
startBatchProcessing(t) ==
    /\ Len(starts) < MaxStarts
    /\ LET k == Len(starts) + 1
       IN IF batchState.isRunning
          THEN Becomes([Cur EXCEPT !.starts =
                   Append(@, [MkStart(t) EXCEPT !.pc = "done", !.result = "alreadyRunning"])])
          ELSE Becomes([Cur EXCEPT !.starts = Append(@, MkStart(t))])

\* the getTabById callback of startBatchProcessing, then sendMessageToTab
startGetTabCallback(k) ==
    /\ k \in 1..Len(starts)
    /\ starts[k].pc = "getTab"
    /\ LET t == starts[k].tab
           id == NewId(sends)
           w1 == sendMessageToTab(Cur.w, tabs, t, "extractAllPages", <<"start", k>>)
       IN IF ~tabs[t].open
          THEN Becomes(Reject(Cur, k, "noTab"))
          ELSE IF ~isValidUrl(tabs[t].url)
          THEN Becomes(Reject(Cur, k, "unsupported"))
          ELSE Becomes(Drain([Cur EXCEPT !.w = w1, !.starts[k].pc = "extract",
                                         !.starts[k].sid = id,
                                         !.starts[k].tabUrl = tabs[t].url]))

\* A cancelBatchProcessing that does not test isRunning
cancelBatchProcessing_NoRunningTest(observed) ==
    Becomes(Say([Cur EXCEPT !.bs.cancelRequested = TRUE,
                            !.hist.reply = IF observed THEN "true" ELSE @],
                "cancelling", "info", "state"))

\* 'cancelBatch' message: sendResponse({success: cancelBatchProcessing()}).  The
\* answer is kept in the history when it is observed.
cancelBatchProcessing(observed) ==
    IF batchState.isRunning
    THEN LET m1 == [Cur EXCEPT !.bs.cancelRequested = TRUE,
                               !.loops[batchState.run].cancelled = TRUE,
                               !.hist.reply = IF observed THEN "true" ELSE @]
         IN Becomes(Say(m1, "cancelling", "info", "state"))
    ELSE Becomes([Cur EXCEPT !.hist.reply = IF observed THEN "false" ELSE @])


\* The getTabById callback inside processSinglePage (pc awaitTab) and inside
\* navigateToPage (pc navGetTab), and the code up to the next await.
getTabByIdCallback(r) ==
    /\ r \in Runs
    /\ loops[r].pc \in {"awaitTab", "navGetTab"}
    /\ LET lp == loops[r]
           t == lp.tabArg
           page == lp.pages[lp.i]
           cur == tabs[t].url
       IN IF ~tabs[t].open THEN Becomes(PageThrows(Cur, r))
          ELSE IF lp.pc = "awaitTab"
          THEN IF page.devinIndex # NoIndex
               THEN IF ~samePage(cur, page.url) THEN Becomes(Navigate(Cur, r, "topic"))
                    ELSE Becomes(LoopSend(Cur, r, "getContentSignature", "sig"))
               ELSE IF samePage(cur, page.url)
               THEN IF page.url.hash # "" /\ page.url.hash # cur.hash
                    THEN IF batchState.tabId = NoTab
                         THEN Becomes(CheckThenConvert(Cur, r))
                         ELSE Becomes([Cur EXCEPT !.loops[r].pc = "hashScript",
                                                  !.loops[r].tabArg = batchState.tabId])
                    ELSE Becomes([Cur EXCEPT !.loops[r].pc = "sleep100"])
               ELSE Becomes(Navigate(Cur, r, "wiki"))
          ELSE IF isHashChange(cur, page.url)
          THEN Becomes([Cur EXCEPT !.loops[r].pc = "navHashScript"])
          ELSE \* markTabPending(tabId); chrome.tabs.update(tabId, {url}); waitForNavigation
               Becomes([Cur EXCEPT !.w.mq = markTabPending(@, t),
                                   !.tb[t].nav = page.url,
                                   !.loops[r].pc = "navWait"])

\* The fragment of the tab's address changes inside the document; the
\* tab-update listener is told (status is "loading" in browsers that report a
\* fragment change as a load, "" otherwise).
HashChanges(m, t, u, status) ==
    With(m, LAMBDA v :
        IF v.tb[t].url = u THEN v
        ELSE [v EXCEPT !.tb[t].url = u, !.w.mq = tabsOnUpdated(@, t, status, u, u)])

\* chrome.scripting.executeScript settles: the script set window.location.hash, or
\* the injection failed.
executeScriptDone(r, ok, status) ==
    /\ r \in Runs
    /\ loops[r].pc \in {"hashScript", "navHashScript"}
    /\ LET lp == loops[r]
           t == lp.tabArg
           page == lp.pages[lp.i]
           moved == HashChanges(Cur, t, [tabs[t].url EXCEPT !.hash = page.url.hash], status)
       IN /\ ok => tabs[t].open
          /\ IF lp.pc = "hashScript"
             THEN IF ok THEN Becomes([moved EXCEPT !.loops[r].pc = "sleep500"])
                  ELSE Becomes(CheckThenConvert(Cur, r))
             ELSE IF ok THEN Becomes([moved EXCEPT !.loops[r].pc = "navHashWait"])
                  ELSE IF ~tabs[t].open THEN Becomes(PageThrows(Cur, r))
                  ELSE Becomes([Cur EXCEPT !.tb[t].nav = page.url,
                                           !.loops[r].pc = "navHashWait",
                                           !.loops[r].tried = TRUE])

\* await sleep(ms) returns
sleepDone(r) ==
    /\ r \in Runs
    /\ loops[r].pc \in {"sleep100", "sleep500", "sleep350", "sleep900", "sleep250"}
    /\ LET lp == loops[r]
           topic == lp.pages[lp.i].devinIndex # NoIndex
       IN CASE lp.pc \in {"sleep100", "sleep500"} -> Becomes(CheckThenConvert(Cur, r))
            [] lp.pc = "sleep350" -> Becomes(LoopSend(Cur, r, "waitForTopicReady", "topicReady"))
            [] lp.pc = "sleep900" ->
                 Becomes(LoopSend(Cur, r, IF topic THEN "waitForTopicReady"
                                          ELSE "waitForContentReady", "ready2"))
            [] OTHER -> Becomes(PageReturns(Cur, r))

\* waitForNavigation resolves: a completed navigation or the address poll finds
\* the tab at an address that roughly matches the destination.
waitForNavigationResolves(r) ==
    /\ r \in Runs
    /\ loops[r].pc = "navWait"
    /\ LET lp == loops[r]
       IN /\ tabs[lp.tabArg].open
          /\ urlsRoughlyMatch(lp.pages[lp.i].url, tabs[lp.tabArg].url)
          /\ Becomes(AfterNavigate(Cur, r))

\* A rejected wait that ends the whole run with 'error'
waitForNavigationRejects_Aborts(r, why) ==
    /\ r \in Runs
    /\ loops[r].pc = "navWait"
    /\ LET t == loops[r].tabArg
       IN IF why = "error"
          THEN /\ tabs[t].open /\ tabs[t].nav # NoUrl
               /\ Becomes(PageThrows_Aborts([Cur EXCEPT !.tb[t].nav = NoUrl], r))
          ELSE Becomes(PageThrows_Aborts(Cur, r))

\* waitForNavigation rejects: the 30 s timer, or a navigation error of the tab.
waitForNavigationRejects(r, why) ==
    /\ r \in Runs
    /\ loops[r].pc = "navWait"
    /\ LET t == loops[r].tabArg
       IN IF why = "error"
          THEN /\ tabs[t].open /\ tabs[t].nav # NoUrl
               /\ Becomes(PageThrows([Cur EXCEPT !.tb[t].nav = NoUrl], r))
          ELSE Becomes(PageThrows(Cur, r))

\* waitForTabUrl of the fragment path of navigateToPage settles.  A rejection
\* inside the try block falls back to chrome.tabs.update and waits again.
waitForTabUrlSettles(r, ok) ==
    /\ r \in Runs
    /\ loops[r].pc = "navHashWait"
    /\ LET lp == loops[r]
           t == lp.tabArg
           page == lp.pages[lp.i]
       IN IF ok
          THEN /\ tabs[t].open
               /\ urlsRoughlyMatch(page.url, tabs[t].url)
               /\ Becomes(AfterNavigate(Cur, r))
          ELSE IF lp.tried \/ ~tabs[t].open THEN Becomes(PageThrows(Cur, r))
               ELSE Becomes([Cur EXCEPT !.tb[t].nav = page.url, !.loops[r].tried = TRUE])

\* A run that reports 'completed' whatever createZipArchive did
createZipArchiveSettles_IgnoresFailure(r, ok) ==
    /\ r \in Runs
    /\ loops[r].pc = "zip"
    /\ Becomes(Terminate([Cur EXCEPT !.loops[r].zip = IF ok THEN "downloaded" ELSE "failed"],
                         r, "completed", "success"))

\* createZipArchive settles (zip.generateAsync, then the chrome.downloads.download
\* callback), then the rest of runBatchProcessing.
createZipArchiveSettles(r, ok) ==
    /\ r \in Runs
    /\ loops[r].pc = "zip"
    /\ IF ok
       THEN Becomes(Terminate([Cur EXCEPT !.loops[r].zip = "downloaded"], r,
                              "completed", "success"))
       ELSE Becomes(Terminate([Cur EXCEPT !.loops[r].zip = "failed"], r, "error", "error"))


----------------------------------------------------------------------------
(* The environment: the browser, the agent and the user *)

\* History: the calls of the delivery queue's own caller (owner "gen", numbered
\* in issue order) that were issued while the tab was marked pending, in the
\* order chrome.tabs.sendMessage was called for them.
Logged(m) ==
    With(m, LAMBDA v :
        LET old == UNION {{inflight[t][n] : n \in 1..Len(inflight[t])} : t \in Tabs}
            t1 == CHOOSE t \in UserTabs : TRUE
        IN With(SelectSeq(v.w.inflight[t1],
                          LAMBDA i : /\ i \notin old
                                     /\ v.w.sends[i].owner[1] = "gen"
                                     /\ v.w.sends[i].viaPending),
                LAMBDA new :
                   [v EXCEPT !.hist.dispatched =
                       @ \o [n \in 1..Len(new) |-> v.w.sends[new[n]].owner[2]]]))

\* A new document loads in the tab: the old agent is gone, the tab-update
\* listener sees status 'loading', the new agent will announce itself.
FullLoad(m, t, u) ==
    [m EXCEPT !.tb[t].url = u, !.tb[t].agent = FALSE, !.tb[t].announce = TRUE,
              !.w = [ClosePorts(@, t) EXCEPT !.mq = tabsOnUpdated(@, t, "loading", u, u)]]

\* The navigation chrome.tabs.update asked for commits.  An address that differs
\* from the current one in the fragment only is reached inside the document.
navigationCommits(t) ==
    /\ tabs[t].open
    /\ tabs[t].nav # NoUrl
    /\ LET u == tabs[t].nav
           m1 == [Cur EXCEPT !.tb[t].nav = NoUrl]
       IN IF sameBase(tabs[t].url, u) /\ u.hash # ""
          THEN \E status \in {"loading", ""} : Becomes(HashChanges(m1, t, u, status))
          ELSE Becomes(FullLoad(m1, t, u))

\* The user reloads the tab or opens another address in it.
userNavigates(t, u) ==
    /\ tabs[t].open
    /\ hist.reloads < MaxReloads
    /\ Becomes(Drain(FullLoad([Cur EXCEPT !.hist.reloads = @ + 1], t, u)))

\* The agent of the new document starts listening and announces itself:
\* 'contentScriptReady' message
contentScriptReady(t) ==
    /\ tabs[t].open
    /\ tabs[t].announce
    /\ LET tb1 == [tabs EXCEPT ![t].agent = TRUE, ![t].announce = FALSE]
       IN Becomes(Drain(Logged([Cur EXCEPT !.tb = tb1,
                                           !.w = contentScriptReadyHandler(@, tb1, t)])))

\* chrome.tabs.onRemoved listener: the user closed the tab.
tabsOnRemoved(t) ==
    /\ tabs[t].open
    /\ LET tb1 == [tabs EXCEPT ![t] = MkTab(FALSE, @.url, FALSE)]
           w1 == tabsOnRemovedQueue(ClosePorts(Cur.w, t), t)
           m1 == [Cur EXCEPT !.tb = tb1, !.w = w1]
       IN IF batchState.isRunning /\ batchState.tabId = t
          THEN LET m2 == [m1 EXCEPT !.bs.isRunning = FALSE, !.bs.cancelRequested = TRUE,
                                    !.loops[batchState.run].closed = TRUE]
                   m3 == Say(m2, "error", "error", "false")
               IN Becomes(Drain([m3 EXCEPT !.bs = resetBatchState]))
          ELSE Becomes(Drain(m1))

\* The callback of chrome.tabs.sendMessage runs.
sendMessageCallback(id) ==
    /\ id \in DOMAIN sends
    /\ sends[id].where \in {"direct", "dispatched"}
    /\ sends[id].port = "open" => MayAnswer(id)
    /\ \E resp \in CallbackOutcomes(sends[id], MaxPages - hist.pages) :
          LET o == sends[id].owner
              h0 == [Cur.hist EXCEPT !.pages = @ + Len(resp.pages)]
              h1 == IF o[1] = "gen" /\ sends[id].viaPending /\ resp.kind = "response"
                    THEN [h0 EXCEPT !.answered = Append(@, o[2])] ELSE h0
          IN Becomes(Drain([Cur EXCEPT !.w = SendCallbackResult(@, id, resp),
                                       !.hist = h1]))

\* The 30 s timer of a queue item fires (MESSAGE_TIMEOUT).
queueItemTimeout(id) ==
    /\ id \in DOMAIN sends
    /\ sends[id].timer = "armed"
    /\ LET sd1 == Settle([sends EXCEPT ![id].timer = "fired"], id, "rejected",
                         ErrResp("timeout"))
       IN Becomes(Drain([Cur EXCEPT !.w.sends = sd1]))

----------------------------------------------------------------------------
(* The orchestrator with its environment *)

\* Only the popup's tab is open; the other tab id is not in use.
OneTab(tab) == [t \in Tabs |-> IF t \in UserTabs THEN tab ELSE MkTab(FALSE, NoUrl, FALSE)]
OneEntry(entry) == [t \in Tabs |-> IF t \in UserTabs THEN entry ELSE NoEntry]

\* The documents the user can open in the tab
Sites == {UrlA, UrlC}

\* The popup disables its start button until the start it asked for is answered.
PopupIdle == \A k \in 1..Len(starts) : starts[k].pc = "done"

\* pageFailed counts the 'pageFailed' broadcasts.  reply is the success value
\* that the step which led to this state answered to a 'cancelBatch' message
\* ("" in every other state).
\* No title was handed to getUniqueFileName yet
NoTitle == <<"">>

\* No archive was assembled yet
NoArchive == [made |-> FALSE, outputs |-> <<>>, entries |-> {}]

NoHist ==
    [reloads |-> 0, pages |-> 0, issued |-> 0, dispatched |-> <<>>, answered |-> <<>>,
     pageFailed |-> 0, reply |-> "", desired |-> NoTitle, archive |-> NoArchive]

Init ==
    /\ batchState = createInitialBatchState
    /\ lastBatchReport = InitialReport
    /\ \E u \in Sites :
          /\ tabs = OneTab(MkTab(TRUE, u, TRUE))
          /\ messageQueue \in {[t \in Tabs |-> NoEntry],
                                OneEntry(MkEntry(TRUE, <<>>, u))}
    /\ sends = <<>>
    /\ inflight = [t \in Tabs |-> <<>>]
    /\ loops = <<>>
    /\ starts = <<>>
    /\ hist = NoHist
    /\ document = NoDocument
    /\ metrics = NotMeasured
    /\ probe = NoProbe
    /\ verdict = NoVerdict

Next ==
    \/ \E t \in UserTabs : PopupIdle /\ startBatchProcessing(t)
    \/ \E k \in 1..MaxStarts : startGetTabCallback(k)
    \/ cancelBatchProcessing(FALSE)
    \/ \E r \in 1..MaxStarts : getTabByIdCallback(r)
    \/ \E r \in 1..MaxStarts, ok \in BOOLEAN, status \in {"loading", ""} :
          executeScriptDone(r, ok, status)
    \/ \E r \in 1..MaxStarts : sleepDone(r)
    \/ \E r \in 1..MaxStarts : waitForNavigationResolves(r)
    \/ \E r \in 1..MaxStarts, why \in {"timeout", "error"} : waitForNavigationRejects(r, why)
    \/ \E r \in 1..MaxStarts, ok \in BOOLEAN : waitForTabUrlSettles(r, ok)
    \/ \E r \in 1..MaxStarts, ok \in BOOLEAN : createZipArchiveSettles(r, ok)
    \/ \E t \in UserTabs : navigationCommits(t)
    \/ \E t \in UserTabs : contentScriptReady(t)
    \/ \E t \in UserTabs : tabsOnRemoved(t)
    \/ \E id \in DOMAIN sends : sendMessageCallback(id)
    \/ \E id \in DOMAIN sends : queueItemTimeout(id)

Spec == Init /\ [][Next]_vars

\* The orchestrator with a popup whose answers are observed
NextP ==
    \/ Next
    \/ cancelBatchProcessing(TRUE)

SpecP == Init /\ [][NextP]_vars

\* The tab may also show an address of another site, where no agent is injected.
InitU ==
    /\ batchState = createInitialBatchState
    /\ lastBatchReport = InitialReport
    /\ \/ \E u \in Sites :
             /\ tabs = OneTab(MkTab(TRUE, u, TRUE))
             /\ messageQueue \in {[t \in Tabs |-> NoEntry],
                                   OneEntry(MkEntry(TRUE, <<>>, u))}
       \/ /\ tabs = OneTab(MkTab(TRUE, UrlX, FALSE))
          /\ messageQueue = [t \in Tabs |-> NoEntry]
    /\ sends = <<>>
    /\ inflight = [t \in Tabs |-> <<>>]
    /\ loops = <<>>
    /\ starts = <<>>
    /\ hist = NoHist
    /\ document = NoDocument
    /\ metrics = NotMeasured
    /\ probe = NoProbe
    /\ verdict = NoVerdict

SpecU == InitU /\ [][Next]_vars

\* The run is started from the overview address of the project.
InitN ==
    /\ batchState = createInitialBatchState
    /\ lastBatchReport = InitialReport
    /\ tabs = OneTab(MkTab(TRUE, UrlR, TRUE))
    /\ messageQueue \in {[t \in Tabs |-> NoEntry],
                          OneEntry(MkEntry(TRUE, <<>>, UrlR))}
    /\ sends = <<>>
    /\ inflight = [t \in Tabs |-> <<>>]
    /\ loops = <<>>
    /\ starts = <<>>
    /\ hist = NoHist
    /\ document = NoDocument
    /\ metrics = NotMeasured
    /\ probe = NoProbe
    /\ verdict = NoVerdict

SpecN == InitN /\ [][Next]_vars

\* Two tabs show the project; the popup is opened over either, a tab may be
\* closed, and the browser calls the callbacks it owes.
InitT ==
    /\ batchState = createInitialBatchState
    /\ lastBatchReport = InitialReport
    /\ tabs = [t \in Tabs |-> MkTab(TRUE, UrlA, TRUE)]
    /\ messageQueue = [t \in Tabs |-> NoEntry]
    /\ sends = <<>>
    /\ inflight = [t \in Tabs |-> <<>>]
    /\ loops = <<>>
    /\ starts = <<>>
    /\ hist = NoHist
    /\ document = NoDocument
    /\ metrics = NotMeasured
    /\ probe = NoProbe
    /\ verdict = NoVerdict

NextT ==
    \/ \E t \in Tabs : PopupIdle /\ startBatchProcessing(t)
    \/ \E t \in Tabs : tabsOnRemoved(t)
    \/ \E k \in 1..MaxStarts : startGetTabCallback(k)
    \/ \E r \in 1..MaxStarts : getTabByIdCallback(r)
    \/ \E r \in 1..MaxStarts, ok \in BOOLEAN, status \in {"loading", ""} :
          executeScriptDone(r, ok, status)
    \/ \E r \in 1..MaxStarts : sleepDone(r)
    \/ \E r \in 1..MaxStarts : waitForNavigationRejects(r, "timeout")
    \/ \E r \in 1..MaxStarts, ok \in BOOLEAN : createZipArchiveSettles(r, ok)
    \/ \E id \in DOMAIN sends : sendMessageCallback(id)
    \/ \E id \in DOMAIN sends : queueItemTimeout(id)

SpecT == InitT /\ [][NextT]_vars

\* The agent measures the document it looks at.
measure ==
    /\ metrics' = getContentReadinessMetrics(document)
    /\ UNCHANGED <<batchState, lastBatchReport, messageQueue, tabs, sends, inflight, loops,
                   starts, hist, document, probe, verdict>>

InitM ==
    /\ batchState = createInitialBatchState
    /\ lastBatchReport = InitialReport
    /\ tabs = OneTab(MkTab(TRUE, UrlA, TRUE))
    /\ messageQueue = [t \in Tabs |-> NoEntry]
    /\ sends = <<>>
    /\ inflight = [t \in Tabs |-> <<>>]
    /\ loops = <<>>
    /\ starts = <<>>
    /\ hist = NoHist
    /\ document \in Documents
    /\ metrics = NotMeasured
    /\ probe = NoProbe
    /\ verdict = NoVerdict

NextM == measure

SpecM == InitM /\ [][NextM]_vars

----------------------------------------------------------------------------
(* The agent's waitForContentReady(options) with the page it polls *)

\* The addresses the page can be at, and the expectedUrl option ("" is NoUrl)
Locations == {UrlA, UrlAh, UrlC}
ExpectedUrls == {NoUrl, UrlA, UrlR, UrlX}

\* tick() of waitForContentReady: one poll.  It resolves the promise when the
\* page is ready or the deadline has passed, and sets the timer otherwise.
tick ==
    /\ probe.pc = "polling"
    /\ \E m \in ObservedMetrics :
          LET location == tabs[CHOOSE t \in UserTabs : TRUE].url
              urlOk == urlsRoughlyMatchAgent(probe.expectedUrl, location)
              ready == ContentReady(urlOk, m, probe.minTextLength)
          IN /\ metrics' = m
             /\ probe' = IF ready \/ probe.elapsed >= probe.deadline
                         THEN [probe EXCEPT !.pc = "done",
                                            !.result = [ready |-> ready, timedOut |-> ~ready,
                                                        urlOk |-> urlOk, metrics |-> m]]
                         ELSE [probe EXCEPT !.pc = "sleeping"]
    /\ UNCHANGED <<batchState, lastBatchReport, messageQueue, tabs, sends, inflight, loops,
                   starts, hist, document, verdict>>

\* setTimeout(tick, intervalMs) fires
tickTimerFires ==
    /\ probe.pc = "sleeping"
    /\ probe' = [probe EXCEPT !.pc = "polling", !.elapsed = @ + 1]
    /\ UNCHANGED <<batchState, lastBatchReport, messageQueue, tabs, sends, inflight, loops,
                   starts, hist, document, metrics, verdict>>

\* The page moves to another address while the probe waits.
locationChanges(u) ==
    /\ probe.pc = "sleeping"
    /\ LET t == CHOOSE x \in UserTabs : TRUE
       IN /\ tabs[t].url # u
          /\ tabs' = [tabs EXCEPT ![t].url = u]
    /\ UNCHANGED <<batchState, lastBatchReport, messageQueue, sends, inflight, loops,
                   starts, hist, document, metrics, probe, verdict>>

InitW ==
    /\ batchState = createInitialBatchState
    /\ lastBatchReport = InitialReport
    /\ \E u \in Locations : tabs = OneTab(MkTab(TRUE, u, TRUE))
    /\ messageQueue = [t \in Tabs |-> NoEntry]
    /\ sends = <<>>
    /\ inflight = [t \in Tabs |-> <<>>]
    /\ loops = <<>>
    /\ starts = <<>>
    /\ hist = NoHist
    /\ document = NoDocument
    /\ metrics = NotMeasured
    /\ verdict = NoVerdict
    /\ \E e \in ExpectedUrls, opt \in {0, CONTENT_READY_MIN_TEXT - 1}, d \in 1..MaxTicks :
          probe = [NoProbe EXCEPT !.pc = "polling", !.expectedUrl = e,
                                  !.minTextLength = IF opt > 0 THEN opt
                                                    ELSE CONTENT_READY_MIN_TEXT,
                                  !.deadline = d]

NextW ==
    \/ tick
    \/ tickTimerFires
    \/ \E u \in Locations : locationChanges(u)

SpecW == InitW /\ [][NextW]_vars

----------------------------------------------------------------------------
(* isMarkdownSuspiciouslyEmpty(markdown, readiness) over bounded arguments *)

\* Amounts of white space around the text
Paddings == {0, 1, EmptyThreshold}

Markdowns ==
    {NoMarkdown}
    \cup {md \in {MkMarkdown(l, c, tr) :
                     l \in Paddings,
                     c \in {0, 1, EmptyFloor - 1, EmptyFloor, EmptyThreshold - 1,
                            EmptyThreshold},
                     tr \in Paddings} :
             md.core = 0 => md.trail = 0}

Readinesses ==
    {NullReadiness, NoMetrics}
    \cup {MkReadiness("metrics", t, m, d, FALSE) :
             t \in {0, CONTENT_READY_MIN_TEXT - 1, CONTENT_READY_MIN_TEXT},
             m \in {0, MinMeaningfulCount - 1, MinMeaningfulCount},
             d \in BOOLEAN}

\* The page processor judges the markdown of a conversion.
judge ==
    /\ ~verdict.judged
    /\ verdict' = [verdict EXCEPT !.judged = TRUE, !.result =
                      isMarkdownSuspiciouslyEmpty(TrimmedLength(verdict.markdown),
                                                  verdict.readiness)]
    /\ UNCHANGED <<batchState, lastBatchReport, messageQueue, tabs, sends, inflight, loops,
                   starts, hist, document, metrics, probe>>

InitE ==
    /\ batchState = createInitialBatchState
    /\ lastBatchReport = InitialReport
    /\ tabs = OneTab(MkTab(TRUE, UrlA, TRUE))
    /\ messageQueue = [t \in Tabs |-> NoEntry]
    /\ sends = <<>>
    /\ inflight = [t \in Tabs |-> <<>>]
    /\ loops = <<>>
    /\ starts = <<>>
    /\ hist = NoHist
    /\ document = NoDocument
    /\ metrics = NotMeasured
    /\ probe = NoProbe
    /\ \E md \in Markdowns, rd \in Readinesses :
          verdict = [NoVerdict EXCEPT !.markdown = md, !.readiness = rd]

NextE == judge

SpecE == InitE /\ [][NextE]_vars

----------------------------------------------------------------------------
(* File naming on its own: pages with the titles of Titles are recorded in   *)
(* batchState one after the other, and the state can be reset in between.   *)

MaxNames == 3

Titles == {<<>>, <<"T">>, <<"T", "-", "1">>, <<"T", " ", " ", "1">>, <<"/", "T", "/">>,
           <<" ", "?", " ">>, Page, <<"-", "T", ":", "|", "1", "\t">>, <<"R", "\n">>,
           ReadMe}

\* The entries of the archive: the names zip.file() was called with, one
\* `${page.title}.md` per converted page and then 'README.md'
ZipEntries(convertedPages) ==
    {convertedPages[i] \o Md : i \in 1..Len(convertedPages)} \cup {ReadMe \o Md}

\* createZipArchive() up to zip.generateAsync, called by runBatchProcessing when
\* batchState.convertedPages is not empty
assembleArchive ==
    /\ Len(batchState.convertedPages) > 0
    /\ ~hist.archive.made
    /\ hist' = [hist EXCEPT !.archive = [made |-> TRUE,
                                         outputs |-> batchState.convertedPages,
                                         entries |-> ZipEntries(batchState.convertedPages)]]
    /\ UNCHANGED <<batchState, lastBatchReport, messageQueue, tabs, sends, inflight, loops,
                   starts, document, metrics, probe, verdict>>

\* const fileName = getUniqueFileName(baseTitle); batchState.convertedPages.push(...)
recordPage(baseTitle) ==
    /\ Len(batchState.convertedPages) < MaxNames
    /\ ~hist.archive.made
    /\ LET fileName == getUniqueFileName(batchState.fileNames, baseTitle)
       IN /\ batchState' = [batchState EXCEPT !.fileNames = @ \cup {fileName},
                                              !.convertedPages = Append(@, fileName)]
          /\ hist' = [hist EXCEPT !.desired = baseTitle]
    /\ UNCHANGED <<lastBatchReport, messageQueue, tabs, sends, inflight, loops, starts,
                   document, metrics, probe, verdict>>

\* resetBatchState() in the finally block of a run; the zip object of its
\* createZipArchive call is gone with the call
namesReset ==
    /\ batchState # resetBatchState
    /\ batchState' = resetBatchState
    /\ hist' = [hist EXCEPT !.archive = NoArchive]
    /\ UNCHANGED <<lastBatchReport, messageQueue, tabs, sends, inflight, loops, starts,
                   document, metrics, probe, verdict>>

NextF ==
    \/ \E baseTitle \in Titles : recordPage(baseTitle)
    \/ namesReset
    \/ assembleArchive

InitF ==
    /\ batchState = createInitialBatchState
    /\ lastBatchReport = InitialReport
    /\ tabs = OneTab(MkTab(TRUE, UrlA, TRUE))
    /\ messageQueue = [t \in Tabs |-> NoEntry]
    /\ sends = <<>>
    /\ inflight = [t \in Tabs |-> <<>>]
    /\ loops = <<>>
    /\ starts = <<>>
    /\ hist = NoHist
    /\ document = NoDocument
    /\ metrics = NotMeasured
    /\ probe = NoProbe
    /\ verdict = NoVerdict

SpecF == InitF /\ [][NextF]_vars

\* Callbacks the browser owes are called, armed timers fire, the agent answers
\* the messages it received.
Owed ==
    \/ \E k \in 1..MaxStarts : startGetTabCallback(k)
    \/ \E r \in 1..MaxStarts : getTabByIdCallback(r)
    \/ \E r \in 1..MaxStarts, ok \in BOOLEAN, status \in {"loading", ""} :
          executeScriptDone(r, ok, status)
    \/ \E r \in 1..MaxStarts : sleepDone(r)
    \/ \E r \in 1..MaxStarts : waitForNavigationRejects(r, "timeout")
    \/ \E r \in 1..MaxStarts : waitForTabUrlSettles(r, FALSE)
    \/ \E r \in 1..MaxStarts, ok \in BOOLEAN : createZipArchiveSettles(r, ok)
    \/ \E id \in DOMAIN sends : sendMessageCallback(id)
    \/ \E id \in DOMAIN sends : queueItemTimeout(id)

Fairness == WF_vars(Owed)

FairSpec == Spec /\ Fairness

\* Any sender may ask for a start at any time: a popup that is reopened finds no
\* run active while an earlier start still awaits the tab or the discovery.
NextO ==
    \/ \E t \in UserTabs : startBatchProcessing(t)
    \/ \E k \in 1..MaxStarts : startGetTabCallback(k)
    \/ \E r \in 1..MaxStarts : getTabByIdCallback(r)
    \/ \E r \in 1..MaxStarts, ok \in BOOLEAN, status \in {"loading", ""} :
          executeScriptDone(r, ok, status)
    \/ \E r \in 1..MaxStarts : sleepDone(r)
    \/ \E r \in 1..MaxStarts : waitForNavigationRejects(r, "timeout")
    \/ \E r \in 1..MaxStarts, ok \in BOOLEAN : createZipArchiveSettles(r, ok)
    \/ \E id \in DOMAIN sends : sendMessageCallback(id)
    \/ \E id \in DOMAIN sends : queueItemTimeout(id)

SpecO == Init /\ [][NextO]_vars

----------------------------------------------------------------------------
(* The delivery queue with a caller of its own *)

CallerActions == {"convertToMarkdown", "waitForContentReady"}

\* Some caller awaits sendMessageToTab(tabId, {action}).
callerSends(t, action) ==
    /\ hist.issued < MaxSends
    /\ LET n == hist.issued + 1
           w1 == sendMessageToTab(Cur.w, tabs, t, action, <<"gen", n>>)
       IN Becomes(Logged([Cur EXCEPT !.w = w1, !.hist.issued = n]))

NextQ ==
    \/ \E t \in UserTabs, action \in CallerActions : callerSends(t, action)
    \/ \E t \in UserTabs, u \in Sites : userNavigates(t, u)
    \/ \E t \in UserTabs : contentScriptReady(t)
    \/ \E t \in UserTabs : tabsOnRemoved(t)
    \/ \E id \in DOMAIN sends : sendMessageCallback(id)
    \/ \E id \in DOMAIN sends : queueItemTimeout(id)

SpecQ == Init /\ [][NextQ]_vars

FairSpecQ == SpecQ /\ Fairness

----------------------------------------------------------------------------
(* Properties *)

\* A step in which a startBatch message arrives
StartArrives == Len(starts') = Len(starts) + 1

\* A step in which the run loop of run r ends
Ends(r) == r \in DOMAIN loops /\ loops[r].pc # "done" /\ loops'[r].pc = "done"

Finished(r) == r \in DOMAIN loops /\ loops[r].pc = "done"

\* C1: a startBatch that arrives while batchState.isRunning is true fails with
\* 'already running' and leaves batchState (tabId, pages, counters, outputs,
\* cancelRequested), the last status record and the run loops as they were.
C1_SingleFlight ==
    [][StartArrives /\ batchState.isRunning =>
          /\ starts'[Len(starts')].result = "alreadyRunning"
          /\ batchState' = batchState
          /\ lastBatchReport' = lastBatchReport
          /\ loops' = Cur.loops]_vars

C1_Witness ==
    \E k \in 1..Len(starts) : starts[k].result = "alreadyRunning" /\ batchState.isRunning

\* C2: once cancelRequested has been set while the loop of a run goes through
\* its pages, that loop begins no further page, ends with 'cancelled', and the
\* counts of that status are the counts reached when the loop stopped.
C2_CancellationBoundary ==
    [][\A r \in DOMAIN loops :
          loops[r].cancelled /\ loops[r].pc # "zip" =>
             /\ loops'[r].begun = loops[r].begun
             /\ Ends(r) =>
                  /\ loops'[r].outcome = "cancelled"
                  /\ lastBatchReport'.type = "cancelled"
                  /\ lastBatchReport'.processed = loops'[r].ok
                  /\ lastBatchReport'.failed = loops'[r].bad]_vars

\* C3: when the driving tab is closed while a run is active, the listener
\* reports 'error' with running = false and resets batchState, and nothing of
\* that run happens afterwards: no archive is downloaded, no other status is
\* reported for it.
C3_TabClosedMidRun ==
    [][\A r \in DOMAIN loops :
          /\ (~loops[r].closed /\ loops'[r].closed) =>
                /\ lastBatchReport'.type = "error"
                /\ ~lastBatchReport'.running
                /\ batchState' = createInitialBatchState
          /\ loops[r].closed =>
                /\ loops'[r].zip # "downloaded"
                /\ loops'[r].outcome # "completed"]_vars

\* C4: every run that starts reaches a terminal outcome (completed, cancelled
\* or error): again and again all the runs that have started have ended; the
\* step that ends a run leaves batchState idle and empty
\* (isRunning false, no pages, zero counters, no outputs, no file names), and a
\* startBatch that arrives when no run is active is not refused as 'already
\* running'.
C4_TerminalThenIdle ==
    /\ []<>(\A r \in DOMAIN loops : Finished(r))
    /\ [][\A r \in DOMAIN loops :
             Ends(r) => /\ loops'[r].outcome \in {"completed", "cancelled", "error"}
                        /\ batchState' = createInitialBatchState]_vars
    /\ [][StartArrives /\ ~batchState.isRunning =>
             starts'[Len(starts')].pc = "getTab"]_vars

\* a second run was accepted after the first one ended
C4_Witness ==
    /\ {1, 2} \subseteq DOMAIN loops
    /\ loops[1].pc = "done"
    /\ loops[1].outcome = "completed"
    /\ starts[2].result = "ok"

Increasing(q) == \A i, j \in 1..Len(q) : i < j => q[i] < q[j]

\* The calls of the queue's own caller that were issued while the tab was pending
PendingIssued == {i \in DOMAIN sends : sends[i].owner[1] = "gen" /\ sends[i].viaPending}

\* The issue numbers of the items of that kind in the queue of tab t, head first
Buffered(t) ==
    LET q == SelectSeq(messageQueue[t].queue, LAMBDA i : i \in PendingIssued)
    IN [n \in 1..Len(q) |-> sends[q[n]].owner[2]]

\* C5 (as stated): the sends issued while the tab was pending are dispatched to
\* the agent in issue order and their responses arrive in issue order.
C5_DispatchAndResponseOrder == Increasing(hist.dispatched) /\ Increasing(hist.answered)

\* C5: the sends issued while the tab was pending wait in the queue in issue
\* order and the ready announcement hands them to chrome.tabs.sendMessage in
\* issue order.
C5_DispatchOrder ==
    /\ \A t \in Tabs : Increasing(Buffered(t))
    /\ Increasing(hist.dispatched)

\* two sends that waited in the queue were dispatched
C5_Witness == Len(hist.dispatched) >= 2 /\ \A t \in Tabs : messageQueue[t].queue = <<>>

\* C6: every sendMessageToTab call settles; a settled call keeps its outcome; a
\* call in the queue has its 30 s timer armed for as long as it is unsettled,
\* and the timer settles it when it fires.
C6_SettlesOnce ==
    /\ \A n \in 1..MaxSends :
          (\E i \in DOMAIN sends : sends[i].owner = <<"gen", n>>)
             ~> (\E i \in DOMAIN sends :
                    sends[i].owner = <<"gen", n>> /\ sends[i].promise # "pending")
    /\ [][\A i \in DOMAIN sends :
             sends[i].owner[1] = "gen" /\ sends[i].promise # "pending" =>
                /\ i \in DOMAIN sends'
                /\ sends'[i].promise = sends[i].promise
                /\ sends'[i].resp = sends[i].resp]_vars
    /\ [](\A i \in DOMAIN sends :
             /\ sends[i].where = "queued" /\ sends[i].promise = "pending" =>
                   sends[i].timer = "armed"
             /\ sends[i].timer = "fired" => sends[i].promise = "rejected")

\* a call that timed out in the queue was dispatched afterwards and answered, and
\* another call was resolved
C6_Witness ==
    \E i, j \in DOMAIN sends :
       /\ sends[i].timer = "fired" /\ sends[i].where = "done"
       /\ i \notin UNION {{messageQueue[t].queue[n] : n \in 1..Len(messageQueue[t].queue)}
                            : t \in Tabs}
       /\ sends[j].promise = "resolved"

\* The step in which the answer to the first (second) convertToMarkdown of a page
\* reaches the loop of run r with markdown
Converted1(r) == r \in DOMAIN loops /\ loops[r].pc = "convert1" /\ loops'[r].got # NoLen
Converted2(r) == r \in DOMAIN loops /\ loops[r].pc = "convert2" /\ loops'[r].got # NoLen

\* The step counts the page as failed: failed + 1, processed as it was, nothing
\* appended to the outputs.
PageFailed(r) ==
    /\ loops'[r].bad = loops[r].bad + 1
    /\ loops'[r].ok = loops[r].ok
    /\ lastBatchReport'.failed = batchState.failed + 1
    /\ lastBatchReport'.processed = batchState.processed
    /\ batchState'.convertedPages \in {batchState.convertedPages, <<>>}

\* The step counts the page as processed, once.
PageProcessed(r) ==
    /\ loops'[r].ok = loops[r].ok + 1
    /\ loops'[r].bad = loops[r].bad
    /\ batchState'.processed = batchState.processed + 1
    /\ batchState'.failed = batchState.failed
    /\ Len(batchState'.convertedPages) = Len(batchState.convertedPages) + 1

\* The readiness the retried conversion is judged against: retryReadiness || readiness
Judged(r) == OrElse(loops[r].retryReadiness, loops[r].readiness)

\* contentLooksSubstantial
Substantial(rd) ==
    /\ rd.kind = "metrics"
    /\ \/ rd.textLength >= CONTENT_READY_MIN_TEXT
       \/ rd.meaningfulCount >= MinMeaningfulCount
       \/ rd.hasMermaid

AtMostTwice == \A r \in DOMAIN loops' : loops'[r].converts <= 2

NavigationPcs == {"navGetTab", "navHashScript", "navHashWait", "navWait", "hashScript"}

\* C9: when the loop has read the tab and finds it at the address of the page
\* (same origin and path, no fragment to move to), it asks for no navigation and
\* does not mark the tab pending: the tab and the isReady flag of its queue entry
\* are as they were.
C9_SameAddressNoNavigation ==
    [][\A r \in DOMAIN loops :
          LET lp == loops[r]
              t == lp.tabArg
              cur == tabs[t].url
              target == lp.pages[lp.i].url
          IN /\ lp.pc = "awaitTab" /\ loops'[r].pc # "awaitTab"
             /\ tabs[t].open
             /\ cur.origin = target.origin
             /\ StripSlash(cur.path) = StripSlash(target.path)
             /\ target.hash = "" \/ target.hash = cur.hash
             => /\ loops'[r].pc \notin NavigationPcs
                /\ tabs' = tabs
                /\ messageQueue'[t].exists = messageQueue[t].exists
                /\ messageQueue'[t].isReady = messageQueue[t].isReady]_vars

\* the second page of a run has the address the tab is at, and its processing
\* went on without a navigation
C9_Witness ==
    \E r \in DOMAIN loops :
       /\ loops[r].pc = "sleep100" /\ loops[r].i = 2
       /\ samePage(tabs[loops[r].tabArg].url, loops[r].pages[2].url)

\* C10: a run becomes 'completed', and 'completed' is broadcast, only in the step
\* in which createZipArchive succeeds, and only for a run with a converted
\* page; when createZipArchive fails the run ends with 'error', and a run that
\* ended keeps its outcome.
C10_CompletedAfterArchive ==
    [][/\ \A r \in DOMAIN loops :
             /\ loops'[r].outcome = "completed" /\ loops[r].outcome # "completed" =>
                   /\ loops[r].pc = "zip" /\ loops[r].zip = "started"
                   /\ loops'[r].zip = "downloaded"
                   /\ loops'[r].ok >= 1
                   /\ lastBatchReport'.type = "completed"
             /\ loops'[r].zip = "failed" /\ loops[r].zip # "failed" =>
                   /\ loops'[r].outcome = "error"
                   /\ lastBatchReport'.type = "error"
             /\ loops[r].pc = "done" => loops'[r].outcome = loops[r].outcome
       /\ lastBatchReport'.type = "completed" /\ lastBatchReport' # lastBatchReport =>
             \E r \in DOMAIN loops : Ends(r) /\ loops'[r].zip = "downloaded"]_vars

\* one run ended with 'error' because its archive failed, another completed
C10_Witness ==
    \E r, q \in DOMAIN loops :
       /\ loops[r].outcome = "error" /\ loops[r].zip = "failed"
       /\ loops[q].outcome = "completed" /\ loops[q].zip = "downloaded"

\* The step in which the loop of run r leaves the for loop over its pages
LeavesLoop(r) ==
    /\ r \in DOMAIN loops
    /\ loops[r].pc \notin {"zip", "done"}
    /\ loops'[r].pc \in {"zip", "done"}

\* C11: a run whose loop has gone through its pages without a cancellation and
\* without a converted page ends with 'error', and no archive is assembled or
\* downloaded for a run that has no converted page.
C11_NothingConverted ==
    [][\A r \in DOMAIN loops :
          /\ LeavesLoop(r) /\ ~loops[r].cancelled /\ loops'[r].ok = 0 =>
                /\ loops'[r].pc = "done"
                /\ loops'[r].outcome = "error"
                /\ lastBatchReport'.type = "error"
                /\ ~lastBatchReport'.running
          /\ loops'[r].ok = 0 => loops'[r].zip = "none"]_vars

\* a run with the tab open to its end, all of whose pages failed, ended with 'error'
C11_Witness ==
    \E r \in DOMAIN loops :
       /\ loops[r].pc = "done" /\ loops[r].outcome = "error"
       /\ loops[r].ok = 0 /\ loops[r].zip = "none"
       /\ lastBatchReport.type = "error" /\ lastBatchReport.total >= 1
       /\ lastBatchReport.failed = lastBatchReport.total

\* The number of pages whose processing threw in the loop of run r in this step
Thrown(r) == loops'[r].bad - loops[r].bad

\* batchState as the catch block finds it: the tab-removal listener resets it
\* before the continuations of the promises it rejected run.
StateAtCatch ==
    IF \E t \in Tabs : /\ tabs[t].open /\ ~tabs'[t].open
                       /\ batchState.isRunning /\ batchState.tabId = t
    THEN createInitialBatchState
    ELSE batchState

\* C12: each page whose processing throws adds one to failed and one
\* 'pageFailed' broadcast, leaves processed and the outputs as they were, and
\* the loop goes on with a later page: it leaves the for loop in that step only
\* when every page of the list has begun or a cancellation was asked for.
C12_PageFailureContinues ==
    [][\A r \in DOMAIN loops :
          Thrown(r) > 0 =>
             /\ hist'.pageFailed = hist.pageFailed + Thrown(r)
             /\ lastBatchReport'.failed = StateAtCatch.failed + Thrown(r)
             /\ lastBatchReport'.processed = StateAtCatch.processed
             /\ loops'[r].ok = loops[r].ok
             /\ batchState'.convertedPages \in {StateAtCatch.convertedPages, <<>>}
             /\ loops'[r].pc \notin {"zip", "done"} =>
                   /\ loops'[r].i > loops[r].i
                   /\ loops'[r].i = loops'[r].begun
             /\ loops'[r].pc # "done" =>
                   /\ batchState'.failed = StateAtCatch.failed + Thrown(r)
                   /\ batchState'.processed = StateAtCatch.processed
                   /\ batchState'.convertedPages = StateAtCatch.convertedPages
             /\ loops'[r].pc \in {"zip", "done"} =>
                   \/ loops'[r].begun = Len(loops[r].pages)
                   \/ loops[r].cancelled]_vars

\* the first page of a run failed and its second page is being processed
C12_Witness ==
    \E r \in DOMAIN loops :
       /\ loops[r].pc = "awaitTab" /\ loops[r].i = 2 /\ loops[r].bad = 1
       /\ batchState.failed = 1 /\ batchState.processed = 0
       /\ hist.pageFailed = 1 /\ lastBatchReport.type = "processing"

\* C13: cancelBatch answers true only when a run is active, and then
\* cancelRequested is set; it answers false only when no run is active, and then
\* batchState, the last status record and the run loops are as they were.
C13_CancelAnswer ==
    [][/\ hist'.reply = "true" =>
             /\ batchState.isRunning
             /\ batchState' = [batchState EXCEPT !.cancelRequested = TRUE]
             /\ lastBatchReport'.type = "cancelling" /\ lastBatchReport'.cancelRequested
       /\ hist'.reply = "false" =>
             /\ ~batchState.isRunning
             /\ batchState' = batchState
             /\ lastBatchReport' = lastBatchReport
             /\ loops' = Cur.loops /\ starts' = starts]_vars

\* cancelBatch was answered false after a run had ended
C13_Witness ==
    /\ hist.reply = "false"
    /\ \E r \in DOMAIN loops : loops[r].pc = "done"

\* The answer to a 'getBatchStatus' message in this state
Status == getBatchStatusPayload(batchState, lastBatchReport)

TerminalTypes == {"completed", "cancelled", "error"}

\* C14: the answer to getBatchStatus is always a status record.  While a run
\* is active its running flag is true and its counters are the live ones; when
\* no run is active it is the last broadcast record with running = false, and
\* once a run has ended that record is one of a terminal outcome.
C14_StatusSnapshot ==
    /\ DOMAIN Status = DOMAIN lastBatchReport
    /\ batchState.isRunning =>
          /\ Status.running
          /\ Status.processed = batchState.processed
          /\ Status.failed = batchState.failed
          /\ Status.total = batchState.total
    /\ ~batchState.isRunning =>
          /\ ~Status.running
          /\ Status = [lastBatchReport EXCEPT !.running = FALSE]
          /\ Status.type \in TerminalTypes \cup {"idle"}
          /\ loops # <<>> => Status.type \in TerminalTypes

C14_Witness ==
    /\ ~batchState.isRunning
    /\ Status.type = "completed" /\ ~Status.running
    /\ Status.processed >= 1 /\ Status.total >= Status.processed

\* The start k is rejected in this step for one of the given reasons
RejectedFor(k, reasons) ==
    /\ k \in 1..Len(starts')
    /\ starts'[k].pc = "done" /\ starts'[k].result \in reasons
    /\ k > Len(starts) \/ starts[k].pc # "done"

\* C15: a start that fails because the tab shows an unsupported site, because page
\* discovery failed, or because no page of the project was found changes
\* neither batchState nor the last status record and starts no run loop.
C15_RejectedStartChangesNothing ==
    [][\A k \in 1..MaxStarts :
          RejectedFor(k, {"unsupported", "sendFailed", "extractFailed", "noPages"}) =>
             /\ batchState' = batchState
             /\ lastBatchReport' = lastBatchReport
             /\ loops' = Cur.loops
             /\ k \notin DOMAIN loops']_vars

C15_Witness ==
    /\ \E k \in 1..Len(starts) :
          /\ starts[k].result = "unsupported"
          /\ tabs[starts[k].tab].open /\ ~isValidUrl(tabs[starts[k].tab].url)
    /\ batchState = createInitialBatchState
    /\ lastBatchReport = InitialReport
    /\ loops = <<>>

\* The callback of the immediate delivery of send id runs in this step
DirectCallback(id) ==
    /\ id \in DOMAIN sends /\ sends[id].where = "direct"
    /\ id \in DOMAIN sends' /\ sends'[id].where # "direct"

\* C16: a call made while the tab was marked ready whose immediate delivery
\* fails with a 'no receiver' error is put into the tab's queue and stays
\* pending; with any other delivery error it is rejected with that error.
C16_ReadyFallback ==
    [][\A id \in DOMAIN sends :
          DirectCallback(id) /\ ~sends[id].fallback =>
             /\ sends[id].port = "none" =>
                   /\ sends'[id].where = "queued" /\ sends'[id].promise = "pending"
                   /\ \E n \in 1..Len(messageQueue'[sends[id].tab].queue) :
                         messageQueue'[sends[id].tab].queue[n] = id
             /\ sends[id].port = "closed" =>
                   /\ sends'[id].promise = "rejected" /\ sends'[id].resp.err = "other"]_vars

\* The ids in the queue of tab t
InQueue(mq, t) == {mq[t].queue[n] : n \in 1..Len(mq[t].queue)}

\* C17: a buffered send whose deadline expires is rejected with a timeout error
\* and leaves the tab's queue, and no later step hands an expired send to
\* chrome.tabs.sendMessage.
C17_ExpiredLeavesBuffer ==
    [][\A id \in DOMAIN sends :
          /\ sends[id].timer = "armed" /\ id \in DOMAIN sends' /\ sends'[id].timer = "fired" =>
                /\ sends'[id].promise = "rejected" /\ sends'[id].resp.err = "timeout"
                /\ id \notin InQueue(messageQueue', sends[id].tab)
          /\ sends[id].timer = "fired" /\ id \in DOMAIN sends' =>
                ~(sends[id].where = "queued" /\ sends'[id].where = "dispatched")]_vars

\* The agent of tab t's new document announces itself in this step
ReadyStep(t) == tabs[t].announce /\ ~tabs'[t].announce /\ tabs'[t].agent

Arrives(r) ==
    /\ loops[r].pc \in {"navWait", "navHashWait"}
    /\ loops'[r].pc \notin {"navWait", "navHashWait"}
    /\ Thrown(r) = 0

\* C19: when navigateToPage resolves, the tab is at the destination: same origin
\* and path, and the destination's fragment when it has one.
C19_ResolvesOnArrival ==
    [][\A r \in DOMAIN loops :
          Arrives(r) =>
             LET t == loops[r].tabArg
                 dest == loops[r].pages[loops[r].i].url
             IN /\ samePage(tabs[t].url, dest)
                /\ dest.hash # "" => tabs[t].url.hash = dest.hash]_vars

\* The length of the text of the document that has no navigation-like ancestor
RECURSIVE ContentLength(_)
ContentLength(regions) ==
    IF regions = <<>> THEN 0
    ELSE (IF MatchesNavigational(Head(regions).wrapper) THEN 0
          ELSE Len(Trim(Head(regions).text)))
         + ContentLength(Tail(regions))

\* C20: the metrics count only what has no navigation-like ancestor.  With a
\* content container textLength is the length of the text outside such ancestors
\* and meaningfulCount the number of structural elements outside them; a
\* document whose only text is in a sidebar gives 0 and 0; a sidebar followed by
\* one article paragraph gives the length of the paragraph's text and 1.
C20_NavigationExcluded ==
    metrics # NotMeasured =>
       LET rs == document.regions
       IN /\ metrics.hasContainer =>
                /\ metrics.textLength = ContentLength(rs)
                /\ metrics.meaningfulCount = Cardinality({i \in 1..Len(rs) :
                       rs[i].para /\ ~MatchesNavigational(rs[i].wrapper)})
          /\ (\A i \in 1..Len(rs) : MatchesNavigational(rs[i].wrapper)) =>
                metrics.textLength = 0 /\ metrics.meaningfulCount = 0
          /\ /\ Len(rs) = 2
             /\ MatchesNavigational(rs[1].wrapper)
             /\ rs[2].wrapper = Article /\ rs[2].para
             => /\ metrics.textLength = Len(Trim(rs[2].text))
                /\ metrics.meaningfulCount = 1

\* The run loops that have not returned
Live == {r \in DOMAIN loops : loops[r].pc # "done"}

\* C21: of two overlapping starts at most one starts a run loop; two run loops
\* never execute at the same time.
C21_OneLoopAtATime == Cardinality(Live) <= 1

\* C22: once the tab of a run was closed and batchState reset, the run loop that
\* was interrupted begins no further page, changes no counter of batchState and
\* broadcasts nothing.
C22_InterruptedLoopIsInert ==
    [][\A r \in DOMAIN loops :
          loops[r].closed /\ loops[r].pc # "done" =>
             /\ loops'[r].begun = loops[r].begun
             /\ batchState'.processed = batchState.processed
             /\ batchState'.failed = batchState.failed
             /\ lastBatchReport' = lastBatchReport]_vars

\* C23: while a run is active and its own run loop takes no step, and its tab
\* is not closed, its pages, counters, outputs and isRunning flag stay as they
\* are: the cleanup of an earlier run does not touch them.
C23_OnlyOwnLoopChangesRun ==
    [][LET k == batchState.run
       IN /\ batchState.isRunning
          /\ k \in DOMAIN loops
          /\ loops'[k] = Cur.loops[k]
          /\ tabs'[batchState.tabId].open
          => /\ batchState'.isRunning
             /\ batchState'.pages = batchState.pages
             /\ batchState'.processed = batchState.processed
             /\ batchState'.failed = batchState.failed
             /\ batchState'.convertedPages = batchState.convertedPages
             /\ batchState'.fileNames = batchState.fileNames]_vars

\* C24: cancellation is observed between pages only.  A page that is under way
\* when cancelRequested is set is counted (as processed or as failed) before
\* the loop stops: when the loop of a cancelled run whose tab stayed open ends,
\* every page it began has been counted.
C24_InFlightPageCounted ==
    [][\A r \in DOMAIN loops :
          loops[r].cancelled /\ ~loops[r].closed /\ tabs' = tabs /\ Ends(r) =>
              loops'[r].begun = loops'[r].ok + loops'[r].bad]_vars

\* The run loops that are inside processSinglePage
InPage == {r \in DOMAIN loops : loops[r].pc \notin {"done", "zip"}}

\* The pages a loop has begun are the first pages of its list, each begun once:
\* the page under way is the one whose place in the list is the number of
\* pages begun.
InOrder(r) ==
    LET lp == loops[r]
    IN /\ lp.pc \notin {"done", "zip"} => lp.i = lp.begun /\ lp.i \in 1..Len(lp.pages)
       /\ lp.pc = "zip" => lp.begun = Len(lp.pages) /\ lp.i = lp.begun + 1

\* C25: pages are processed in the order of the list and one at a time: a loop
\* begins page i+1 only when page i has finished, and at no moment are two
\* pages under way.
C25_InOrderOneAtATime ==
    /\ \A r \in DOMAIN loops : InOrder(r)
    /\ Cardinality(InPage) <= 1

\* C26: when a run ends without a cancellation and without its tab having been
\* closed, every page of its list has been counted once: the terminal status
\* carries processed + failed = total, the number of pages of the list.
C26_AllPagesCounted ==
    [][\A r \in DOMAIN loops :
          Ends(r) /\ ~loops[r].cancelled /\ ~loops[r].closed /\ tabs' = tabs =>
              /\ lastBatchReport'.total = Len(loops[r].pages)
              /\ lastBatchReport'.processed + lastBatchReport'.failed = lastBatchReport'.total
              /\ loops'[r].ok + loops'[r].bad = Len(loops[r].pages)
              /\ lastBatchReport'.processed = loops'[r].ok
              /\ lastBatchReport'.failed = loops'[r].bad]_vars

\* C27: each run broadcasts exactly one terminal status (completed, cancelled
\* or error) and no status of that run follows it.  The loop of a run ends
\* with a terminal status; when the terminal status of the run has been
\* broadcast by the tab-removal listener, its loop broadcasts nothing more:
\* no processing, pageProcessed, pageFailed or zipping, no second terminal
\* status.
C27_OneTerminalStatus ==
    [][\A r \in DOMAIN loops :
          /\ Ends(r) => /\ loops'[r].outcome \in TerminalTypes
                        /\ lastBatchReport'.type = loops'[r].outcome
          /\ loops[r].closed /\ loops[r].pc # "done" =>
                /\ ~Ends(r)
                /\ hist'.pageFailed = hist.pageFailed
                /\ loops'[r].begun = loops[r].begun
                /\ loops'[r].ok = loops[r].ok
                /\ loops'[r].zip = loops[r].zip]_vars

\* C28: in every state processed + failed <= total, and processed is the
\* number of outputs (convertedPages).
C28_CountersWithinTotal ==
    /\ batchState.processed + batchState.failed <= batchState.total
    /\ batchState.processed = Len(batchState.convertedPages)

\* The call of sendMessageToTab that the delivery queue's caller makes in this
\* step, if it makes one
Issued(id) ==
    /\ hist'.issued = hist.issued + 1
    /\ id \in DOMAIN sends'
    /\ sends'[id].owner = <<"gen", hist'.issued>>

\* C29: while a tab's queue entry is marked not ready, sendMessageToTab attempts
\* no delivery: the call is appended to the tab's queue and stays pending with
\* nothing handed to chrome.tabs.sendMessage; a call buffered that way is
\* dispatched only in the step of a ready announcement of that tab.
C29_PendingBuffersOnly ==
    [][/\ \A id \in DOMAIN sends' :
             LET t == sends'[id].tab
             IN Issued(id) /\ messageQueue[t].exists /\ ~messageQueue[t].isReady =>
                   /\ messageQueue'[t].queue = Append(messageQueue[t].queue, id)
                   /\ ~messageQueue'[t].isReady
                   /\ inflight' = inflight
                   /\ sends'[id].where = "queued"
                   /\ sends'[id].promise = "pending"
       /\ \A id \in DOMAIN sends :
             (/\ id \in DOMAIN sends'
              /\ sends[id].viaPending /\ sends[id].where = "queued"
              /\ sends'[id].where = "dispatched") => ReadyStep(sends[id].tab)]_vars

C29_Witness ==
    \E t \in Tabs :
        /\ messageQueue[t].exists /\ ~messageQueue[t].isReady
        /\ Len(messageQueue[t].queue) = 2
        /\ \A id \in InQueue(messageQueue, t) :
              /\ sends[id].viaPending /\ sends[id].where = "queued"
              /\ sends[id].promise = "pending"

\* The tab is marked pending: its queue entry exists with isReady false
Pending(mq, t) == mq[t].exists /\ ~mq[t].isReady

\* The address of tab t changes in its fragment only in this step
FragmentOnly(t) ==
    /\ tabs[t].open /\ tabs'[t].open
    /\ sameBase(tabs[t].url, tabs'[t].url)
    /\ tabs[t].url.hash # tabs'[t].url.hash

\* C30: a transition that changes only the fragment of the tab's address (same
\* origin and path) is made inside the document and does not mark the tab
\* pending: neither the page processor, nor navigateToPage, nor the tab-update
\* listener sets isReady to false because of it.
C30_FragmentKeepsReady ==
    [][\A t \in Tabs :
          FragmentOnly(t) /\ ~Pending(messageQueue, t) =>
              /\ ~Pending(messageQueue', t)
              /\ tabs'[t].agent = tabs[t].agent]_vars

\* The wait of navigateToPage for the full navigation of run r settles in this
\* step
NavigationSettles(r) ==
    r \in DOMAIN loops /\ loops[r].pc = "navWait" /\ loops'[r].pc # "navWait"

\* C31: the wait that follows a full navigation settles once.  It resolves only
\* with the tab at an address that roughly matches the destination, and the
\* page goes on; otherwise it rejects (navigation error or the 30 s deadline),
\* and the rejection fails the current page only: the page is counted as failed
\* once, 'pageFailed' is broadcast once, and the loop goes on with the next
\* page or, after the last page, with the end of the run.
C31_NavigationWaitSettles ==
    [][\A r \in DOMAIN loops :
          NavigationSettles(r) /\ ~loops[r].closed =>
             LET lp == loops[r]
                 t == lp.tabArg
                 last == lp.i = Len(lp.pages)
             IN \/ /\ tabs[t].open
                   /\ urlsRoughlyMatch(lp.pages[lp.i].url, tabs[t].url)
                   /\ loops'[r].bad = lp.bad
                   /\ hist'.pageFailed = hist.pageFailed
                   /\ ~batchState.cancelRequested =>
                         /\ batchState'.failed = batchState.failed
                         /\ loops'[r].i = lp.i
                         /\ loops'[r].pc \in {"sig", "ready1"}
                \/ /\ loops'[r].bad = lp.bad + 1
                   /\ hist'.pageFailed = hist.pageFailed + 1
                   /\ lastBatchReport'.failed = batchState.failed + 1
                   /\ loops'[r].ok = lp.ok
                   /\ ~last /\ ~batchState.cancelRequested =>
                         /\ loops'[r].pc = "awaitTab"
                         /\ loops'[r].i = lp.i + 1
                         /\ batchState'.isRunning
                         /\ batchState'.failed = batchState.failed + 1
                   /\ last \/ batchState.cancelRequested =>
                         loops'[r].pc \in {"zip", "done"}]_vars

C31_Witness ==
    \E r \in DOMAIN loops :
        LET lp == loops[r]
            t == batchState.tabId
        IN /\ batchState.isRunning /\ batchState.run = r /\ t \in Tabs
           /\ lp.pc = "awaitTab" /\ lp.i = 2 /\ lp.bad = 1 /\ lp.ok = 0
           /\ batchState.failed = 1
           /\ tabs[t].open
           /\ tabs[t].nav = lp.pages[1].url
           /\ ~sameBase(tabs[t].url, lp.pages[1].url)

\* The first convertToMarkdown of the page that run r is at is sent in this step
FirstConversion(r) ==
    /\ r \in DOMAIN loops /\ loops[r].pc # "done"
    /\ loops'[r].begun = loops[r].begun
    /\ loops[r].converts = 0 /\ loops'[r].converts = 1

\* C32: for every page that reaches conversion a readiness probe (the address
\* variant or the topic variant) has been awaited before the first
\* convertToMarkdown: the conversion is sent in the step in which the answer
\* of the probe arrives.
C32_ProbeBeforeConversion ==
    [][\A r \in DOMAIN loops :
          FirstConversion(r) => loops[r].pc \in {"ready1", "topicReady"}]_vars

\* The pcs of the branch of processSinglePage that stays in the document
InPlacePcs == {"sleep100", "sleep500", "hashScript"}

\* C32 as the code has it: the first convertToMarkdown of a page is sent when
\* the answer of its readiness probe arrives, except for a page without topic
\* index that processSinglePage found in the document the tab showed (same
\* origin and path) when it looked at the tab: such a page is converted after
\* the fragment update or the short sleep, without a probe.
C32_ProbeUnlessSameDocument ==
    [][\A r \in DOMAIN loops :
          LET lp == loops[r]
              page == lp.pages[lp.i]
          IN /\ FirstConversion(r) =>
                   \/ lp.pc \in {"ready1", "topicReady"}
                   \/ page.devinIndex = NoIndex /\ lp.pc \in InPlacePcs
             /\ lp.pc \notin InPlacePcs /\ loops'[r].pc \in InPlacePcs =>
                   /\ lp.pc = "awaitTab" /\ loops'[r].i = lp.i
                   /\ page.devinIndex = NoIndex
                   /\ samePage(tabs[lp.tabArg].url, page.url)]_vars

C32_Witness ==
    \E r \in DOMAIN loops :
        /\ loops[r].pc = "convert1" /\ loops[r].converts = 1
        /\ loops[r].readiness # NullReadiness

\* The agent answers the readiness probe of run r in this step: the callback of
\* the probe's message runs with the agent's response.
ProbeAnswered(r) ==
    /\ r \in DOMAIN loops /\ loops[r].pc \in {"ready1", "topicReady"}
    /\ LET id == loops[r].sid
       IN /\ id \in DOMAIN sends
          /\ sends[id].port = "open" /\ sends[id].promise = "pending"
          /\ id \in InQueue([t \in Tabs |-> [queue |-> inflight[t]]], sends[id].tab)
          /\ id \notin InQueue([t \in Tabs |-> [queue |-> inflight'[t]]], sends[id].tab)
    /\ tabs' = tabs

\* C33: a readiness probe that times out does not fail the page.  Whatever the
\* agent answers to the probe (ready, or timedOut with the last metrics), the
\* answer is kept as the page's readiness, the page is not counted as failed
\* and, unless the run was cancelled, convertToMarkdown is sent for it.
C33_ProbeTimeoutStillConverts ==
    [][\A r \in DOMAIN loops :
          ProbeAnswered(r) /\ ~batchState.cancelRequested =>
             /\ loops'[r].pc = "convert1"
             /\ loops'[r].i = loops[r].i
             /\ loops'[r].converts = 1
             /\ loops'[r].bad = loops[r].bad
             /\ batchState'.failed = batchState.failed
             /\ loops'[r].readiness \in {ReadinessLow, ReadinessHigh, NoMetrics}]_vars

C33_Witness ==
    \E r \in DOMAIN loops :
        /\ loops[r].pc = "convert1" /\ loops[r].converts = 1
        /\ loops[r].readiness.timedOut
        /\ loops[r].bad = 0 /\ loops[r].i = 1

\* A poll of waitForContentReady happens in this step
Polls == probe.pc = "polling" /\ probe' # probe

\* C34: waitForContentReady returns ready = true at the first poll that finds
\* the page's address roughly matching the expected one and (textLength >=
\* minTextLength or meaningfulCount >= 6 or a diagram); otherwise it polls
\* again after the interval, and at the deadline it returns ready = false,
\* timedOut = true with the metrics of that last poll; in every result
\* timedOut is the negation of ready.
C34_ReadyOrDeadline ==
    [][/\ Polls =>
             LET location == tabs[CHOOSE t \in UserTabs : TRUE].url
                 m == metrics'
                 good == /\ urlsRoughlyMatchAgent(probe.expectedUrl, location)
                         /\ \/ m.textLength >= probe.minTextLength
                            \/ m.meaningfulCount >= 6
                            \/ m.hasMermaid
                 r == probe'.result
             IN /\ good => /\ probe'.pc = "done"
                           /\ r.ready /\ ~r.timedOut /\ r.metrics = m
                /\ ~good /\ probe.elapsed < probe.deadline =>
                      probe'.pc = "sleeping" /\ r = NoResult
                /\ ~good /\ probe.elapsed >= probe.deadline =>
                      /\ probe'.pc = "done"
                      /\ ~r.ready /\ r.timedOut /\ r.metrics = m
       /\ probe.pc = "sleeping" /\ probe' # probe =>
             probe'.pc = "polling" /\ probe'.elapsed = probe.elapsed + 1
       /\ probe'.pc = "done" => probe'.result.timedOut = ~probe'.result.ready
       /\ probe.pc = "done" => probe' = probe]_vars

C34_Witness ==
    /\ probe.pc = "done"
    /\ probe.result.timedOut /\ ~probe.result.ready
    /\ ~probe.result.urlOk
    /\ probe.result.metrics.textLength >= probe.minTextLength
    /\ probe.elapsed = probe.deadline /\ probe.deadline = MaxTicks
    /\ probe.result.metrics = metrics

\* C35: isMarkdownSuspiciouslyEmpty(markdown, readiness) is true exactly when
\* the trimmed length is below 80 and either no readiness metrics are available
\* and the length is below 20, or the metrics show textLength >= 160 or
\* meaningfulCount >= 6 or a diagram; markdown of 80 or more characters is
\* never suspicious.
C35_SuspiciouslyEmpty ==
    verdict.judged =>
        LET md == verdict.markdown
            rd == verdict.readiness
            length == IF md.absent THEN 0 ELSE md.core
            hasMetrics == rd.kind = "metrics"
        IN /\ verdict.result =
                 (/\ length < 80
                  /\ \/ ~hasMetrics /\ length < 20
                     \/ /\ hasMetrics
                        /\ rd.textLength >= 160 \/ rd.meaningfulCount >= 6 \/ rd.hasMermaid)
           /\ length >= 80 => verdict.result = FALSE

C35_Witness ==
    /\ verdict.judged /\ verdict.result
    /\ verdict.markdown.core = 19
    /\ verdict.markdown.lead + verdict.markdown.core + verdict.markdown.trail >= 80
    /\ verdict.readiness = NoMetrics

\* processSinglePage has read the tab (which is open) and leaves the await of
\* getTabById in this step
ReadsTab(r) ==
    /\ r \in DOMAIN loops
    /\ loops[r].pc = "awaitTab"
    /\ tabs[loops[r].tabArg].open
    /\ loops'[r].pc # "awaitTab" \/ loops'[r].i # loops[r].i \/ loops'[r].begun # loops[r].begun

Sanitized(name) ==
    /\ name # <<>>
    /\ \A i \in 1..Len(name) : name[i] \notin Forbidden \cup WhiteSpace
    /\ \A i \in 1..(Len(name) - 1) : ~(name[i] = "-" /\ name[i + 1] = "-")
    /\ name[1] # "-" /\ name[Len(name)] # "-"

\* C37: the file names of batchState.convertedPages are sanitized, pairwise
\* distinct and members of batchState.fileNames; the name of the page recorded
\* last is the sanitized title when no earlier page has it, and else the
\* sanitized title with the suffix -k, k the least of 1, 2, ... whose name no
\* earlier page has.
C37_UniqueSanitizedNames ==
    LET names == batchState.convertedPages
        n == Len(names)
    IN /\ \A i \in 1..n : Sanitized(names[i]) /\ names[i] \in batchState.fileNames
       /\ \A i, j \in 1..n : i # j => names[i] # names[j]
       /\ (n > 0 /\ hist.desired # NoTitle) =>
             LET earlier == {names[i] : i \in 1..(n - 1)}
                 clean == StripDashes(ReplaceRuns(ReplaceEach(hist.desired,
                                         Forbidden \cup WhiteSpace, "-"), {"-"}, "-"))
                 base == IF clean = <<>> THEN Page ELSE clean
                 Suffixed(k) == base \o <<"-", Digits[k]>>
             IN IF base \notin earlier THEN names[n] = base
                ELSE \E k \in 1..n :
                        /\ names[n] = Suffixed(k)
                        /\ \A j \in 1..(k - 1) : Suffixed(j) \in earlier

\* three pages with colliding titles: "T", then "T 1" (sanitized T-1), then "T"
\* again, which finds T and T-1 taken and is recorded as T-2
C37_Witness ==
    /\ batchState.convertedPages = <<<<"T">>, <<"T", "-", "1">>, <<"T", "-", "2">>>>
    /\ hist.desired = <<"T">>

\* C38: the archive has one entry per page of batchState.convertedPages and
\* the entry README.md, |convertedPages| + 1 distinct entries in all, whatever
\* the file names of the pages are.
C38_OneEntryPerPagePlusIndex ==
    hist.archive.made =>
        /\ Cardinality(hist.archive.entries) = Len(hist.archive.outputs) + 1
        /\ \A i \in 1..Len(hist.archive.outputs) :
              hist.archive.outputs[i] \o Md \in hist.archive.entries
        /\ ReadMe \o Md \in hist.archive.entries

\* C39: while a run is on (batchState.isRunning), a step that is not a reset of
\* batchState to createInitialBatchState() leaves total as it is and does not
\* decrease processed or failed; and in any step at all a counter that was
\* positive becomes zero only by such a reset.
C39_CountersMonotone ==
    [][/\ (batchState.isRunning /\ batchState' # resetBatchState) =>
             /\ batchState'.processed >= batchState.processed
             /\ batchState'.failed >= batchState.failed
             /\ batchState'.total = batchState.total
       /\ (\/ batchState'.processed < batchState.processed
           \/ batchState'.failed < batchState.failed
           \/ batchState'.total < batchState.total) =>
             batchState' = resetBatchState]_vars

====
